---------------------------- MODULE Spec2Model ----------------------------
(***************************************************************************)
(* A model of the dependency-extraction service: the tree builder          *)
(* (src/src/file_system.rs), the per-language analysers, the resolver and  *)
(* the __init__.py expander (src/src/dependency_analyzer.rs) and the       *)
(* /api/dependencies handler that chains them (src/src/handlers.rs).       *)
(*                                                                         *)
(* Strings and paths are sequences of one-character strings, so that       *)
(* joining, cleaning, prefix tests and natural comparison are computed     *)
(* character by character as the code and its libraries compute them.      *)
(* The disk holds no symbolic links and does not change during a request.  *)
(***************************************************************************)
EXTENDS Integers, Sequences, FiniteSets, TLC

(***************************************************************************)
(* Characters.                                                             *)
(***************************************************************************)

\* The characters the model uses, in increasing order of their code points.
CharOrder ==
    << " ", ".", "/", "0", "1", "2", "3", "4", "5", "6", "7", "8", "9", ":",
       "_", "a", "b", "c", "d", "e", "f", "g", "h", "i", "j", "k", "l", "m",
       "n", "o", "p", "q", "r", "s", "t", "u", "v", "w", "x", "y", "z" >>

CharSet == { CharOrder[i] : i \in 1..Len(CharOrder) }

\* char::cmp: the position of a character in the order of code points.
Code == [ c \in CharSet |-> CHOOSE i \in 1..Len(CharOrder) : CharOrder[i] = c ]

\* char::is_whitespace
is_whitespace(c) == c = " "

\* char::to_digit(10): the digit's value, or -1 for none.
to_digit(c) == IF Code[c] >= Code["0"] /\ Code[c] <= Code["9"]
               THEN Code[c] - Code["0"] ELSE -1

\* Option::None, for an optional string or path.
None == << "none" >>

\* Ordering::{Less, Equal, Greater}
Less == "Less"
Equal == "Equal"
Greater == "Greater"

int_cmp(a, b) == IF a < b THEN Less ELSE IF a > b THEN Greater ELSE Equal

(***************************************************************************)
(* natord::compare, as called by expand_init_dependencies and by           *)
(* natural_compare.  The comparison walks both strings at once: it skips   *)
(* whitespace before each non-digit step, compares two digit runs          *)
(* left-aligned when either starts with 0 and right-aligned (longer run    *)
(* is greater, else first differing digit) otherwise, and compares other   *)
(* characters by code point.  i and j are the positions of the current     *)
(* characters; a position past the end is the end of the string.           *)
(***************************************************************************)

digit_at(s, i) == IF i <= Len(s) THEN to_digit(s[i]) ELSE -1

RECURSIVE nat_nondigits(_, _, _, _)
RECURSIVE nat_digits_left(_, _, _, _)
RECURSIVE nat_digits_right(_, _, _, _, _)

nat_digits_left(a, b, i, j) ==
    LET ll == digit_at(a, i)
        rr == digit_at(b, j)
    IN  IF ll >= 0 /\ rr >= 0
        THEN IF ll # rr THEN int_cmp(ll, rr) ELSE nat_digits_left(a, b, i + 1, j + 1)
        ELSE IF ll >= 0 THEN Greater
        ELSE IF rr >= 0 THEN Less
        ELSE nat_nondigits(a, b, i, j)

nat_digits_right(a, b, i, j, lastcmp) ==
    LET ll == digit_at(a, i)
        rr == digit_at(b, j)
    IN  IF ll >= 0 /\ rr >= 0
        THEN nat_digits_right(a, b, i + 1, j + 1,
                              IF lastcmp = Equal THEN int_cmp(ll, rr) ELSE lastcmp)
        ELSE IF ll >= 0 THEN Greater
        ELSE IF rr >= 0 THEN Less
        ELSE IF lastcmp # Equal THEN lastcmp
        ELSE nat_nondigits(a, b, i, j)

nat_nondigits(a, b, i, j) ==
    IF i <= Len(a) /\ is_whitespace(a[i]) THEN nat_nondigits(a, b, i + 1, j)
    ELSE IF j <= Len(b) /\ is_whitespace(b[j]) THEN nat_nondigits(a, b, i, j + 1)
    ELSE IF i > Len(a) /\ j > Len(b) THEN Equal
    ELSE IF j > Len(b) THEN Greater
    ELSE IF i > Len(a) THEN Less
    ELSE LET ll == to_digit(a[i])
             rr == to_digit(b[j])
         IN  IF ll >= 0 /\ rr >= 0
             THEN IF ll = 0 \/ rr = 0
                  THEN IF ll # rr THEN int_cmp(ll, rr)
                       ELSE nat_digits_left(a, b, i + 1, j + 1)
                  ELSE nat_digits_right(a, b, i + 1, j + 1, int_cmp(ll, rr))
             ELSE IF a[i] # b[j] THEN int_cmp(Code[a[i]], Code[b[j]])
             ELSE nat_nondigits(a, b, i + 1, j + 1)

\* natural_compare(a, b) = natord::compare(a, b)
natural_compare(a, b) == nat_nondigits(a, b, 1, 1)

(***************************************************************************)
(* Paths: std::path and path_clean on character sequences.                 *)
(***************************************************************************)

Sep == "/"

\* The components of a path: the maximal runs of characters other than "/".
RECURSIVE components_from(_, _, _)
components_from(s, i, cur) ==
    IF i > Len(s)
    THEN IF cur = << >> THEN << >> ELSE << cur >>
    ELSE IF s[i] = Sep
         THEN (IF cur = << >> THEN << >> ELSE << cur >>) \o components_from(s, i + 1, << >>)
         ELSE components_from(s, i + 1, Append(cur, s[i]))

components(s) == components_from(s, 1, << >>)

is_absolute(s) == Len(s) > 0 /\ s[1] = Sep

RECURSIVE join_components(_)
join_components(cs) ==
    IF cs = << >> THEN << >>
    ELSE IF Len(cs) = 1 THEN cs[1]
    ELSE cs[1] \o << Sep >> \o join_components(Tail(cs))

\* The text of a path from its components.
from_components(abs, cs) ==
    IF abs THEN << Sep >> \o join_components(cs)
    ELSE IF cs = << >> THEN << "." >> ELSE join_components(cs)

DotDot == << ".", "." >>

\* PathClean::clean: lexical only.  "." elements go; ".." removes the element
\* before it, is dropped at the root of an absolute path and is kept at the
\* start of a relative one.
RECURSIVE clean_components(_, _, _)
clean_components(abs, cs, out) ==
    IF cs = << >> THEN out
    ELSE LET c == cs[1]
             rest == Tail(cs)
         IN  IF c = << "." >> THEN clean_components(abs, rest, out)
             ELSE IF c = DotDot
                  THEN IF out # << >> /\ out[Len(out)] # DotDot
                       THEN clean_components(abs, rest, SubSeq(out, 1, Len(out) - 1))
                       ELSE IF abs THEN clean_components(abs, rest, out)
                       ELSE clean_components(abs, rest, Append(out, c))
                  ELSE clean_components(abs, rest, Append(out, c))

clean(s) == from_components(is_absolute(s), clean_components(is_absolute(s), components(s), << >>))

\* Path::join: an absolute argument replaces the base.
path_join(base, s) ==
    IF is_absolute(s) THEN s
    ELSE IF base # << >> /\ base[Len(base)] = Sep THEN base \o s
    ELSE base \o << Sep >> \o s

\* Path::parent of a path with at least one component.
parent(p) ==
    LET cs == SubSeq(components(p), 1, Len(components(p)) - 1)
    IN  IF is_absolute(p) THEN from_components(TRUE, cs) ELSE join_components(cs)

has_parent(p) == components(p) # << >>

\* The last position at or before i that holds a character other than "/",
\* and the last that holds "/"; 0 for none.
RECURSIVE last_not_sep(_, _)
last_not_sep(p, i) == IF i = 0 \/ p[i] # Sep THEN i ELSE last_not_sep(p, i - 1)

RECURSIVE last_sep(_, _)
last_sep(p, i) == IF i = 0 \/ p[i] = Sep THEN i ELSE last_sep(p, i - 1)

\* Path::file_name: the last component, none for ".." or no component.
file_name(p) ==
    LET end == last_not_sep(p, Len(p))
    IN  IF end = 0 THEN None
        ELSE LET name == SubSeq(p, last_sep(p, end) + 1, end)
             IN  IF name = DotDot THEN None ELSE name

\* The position of the last "." of a name, 0 for none.
RECURSIVE last_dot(_, _)
last_dot(n, i) == IF i = 0 THEN 0 ELSE IF n[i] = "." THEN i ELSE last_dot(n, i - 1)

\* Path::extension: the text after the last "." of the file name; none when
\* the name has no "." or only a leading one.
extension(p) ==
    LET n == file_name(p)
    IN  IF n = None THEN None
        ELSE LET d == last_dot(n, Len(n))
             IN  IF d <= 1 THEN None ELSE SubSeq(n, d + 1, Len(n))

is_prefix(xs, ys) == Len(xs) <= Len(ys) /\ SubSeq(ys, 1, Len(xs)) = xs

\* A mutant of starts_with: a prefix of the text, not of the components.
starts_with_text(p, base) == is_prefix(base, p)

\* Path::starts_with: base's components are a prefix of p's components.
starts_with(p, base) ==
    is_absolute(p) = is_absolute(base) /\ is_prefix(components(base), components(p))


(***************************************************************************)
(* Sequences and sets.                                                     *)
(***************************************************************************)

Range(f) == { f[x] : x \in DOMAIN f }

\* The orders in which the elements of a finite set can be enumerated: the
\* iteration orders of a HashMap or HashSet, and of read_dir.
RECURSIVE Orders(_)
Orders(S) ==
    IF S = { } THEN { << >> }
    ELSE UNION { { << x >> \o o : o \in Orders(S \ { x }) } : x \in S }

\* The least of a set of numbers.
Min(S) == CHOOSE k \in S : \A j \in S : k <= j

\* The elements of a set in one of the orders an iterator may yield them.
RECURSIVE some_order(_)
some_order(S) ==
    IF S = { } THEN << >>
    ELSE LET x == CHOOSE x \in S : TRUE IN << x >> \o some_order(S \ { x })

\* Strings of the model, written by their characters.
RECURSIVE concat_all(_)
concat_all(ss) == IF ss = << >> THEN << >> ELSE ss[1] \o concat_all(Tail(ss))

\* str::repeat
RECURSIVE repeat(_, _)
repeat(s, n) == IF n = 0 THEN << >> ELSE s \o repeat(s, n - 1)

\* str::replace(from, to): every non-overlapping occurrence, left to right.
RECURSIVE replace(_, _, _)
replace(s, from, to) ==
    IF s = << >> THEN << >>
    ELSE IF is_prefix(from, s)
         THEN to \o replace(SubSeq(s, Len(from) + 1, Len(s)), from, to)
         ELSE << s[1] >> \o replace(Tail(s), from, to)

\* str::strip_prefix: the rest of the string, or none.
strip_prefix(s, prefix) ==
    IF is_prefix(prefix, s) THEN SubSeq(s, Len(prefix) + 1, Len(s)) ELSE None

\* str::trim_matches(c): c removed from both ends.
RECURSIVE trim_start_matches(_, _)
trim_start_matches(s, c) ==
    IF s # << >> /\ s[1] = c THEN trim_start_matches(Tail(s), c) ELSE s

RECURSIVE trim_end_matches(_, _)
trim_end_matches(s, c) ==
    IF s # << >> /\ s[Len(s)] = c
    THEN trim_end_matches(SubSeq(s, 1, Len(s) - 1), c) ELSE s

trim_matches(s, c) == trim_end_matches(trim_start_matches(s, c), c)

(***************************************************************************)
(* The disk.                                                               *)
(***************************************************************************)

Str_js == << "j", "s" >>
Str_py == << "p", "y" >>
Str_rs == << "r", "s" >>
Str_init_py == << "_", "_", "i", "n", "i", "t", "_", "_", ".", "p", "y" >>

\* An absolute path from the names of its components.
Abs(names) == from_components(TRUE, names)

N_r == << "r" >>
N_rx == << "r", "x" >>
N_a_js == << "a", ".", "j", "s" >>
N_o_js == << "o", ".", "j", "s" >>
N_s_js == << "s", ".", "j", "s" >>
N_ign == << "i", "g", "n" >>
N_lib == << "l", "i", "b" >>
N_h_h == << "h", ".", "h" >>
N_a_cpp == << "a", ".", "c", "p", "p" >>
N_user_py == << "u", "s", "e", "r", ".", "p", "y" >>
N_pkg == << "p", "k", "g" >>
N_sub == << "s", "u", "b" >>
N_m_py == << "m", ".", "p", "y" >>
N_src == << "s", "r", "c" >>
N_b_rs == << "b", ".", "r", "s" >>
N_a == << "a" >>
N_mod_rs == << "m", "o", "d", ".", "r", "s" >>
N_gitignore == << ".", "g", "i", "t", "i", "g", "n", "o", "r", "e" >>
N_ry == << "r", "y" >>
N_o == << "o" >>
N_o_py == << "o", ".", "p", "y" >>
N_o_rs == << "o", ".", "r", "s" >>
N_index_js == << "i", "n", "d", "e", "x", ".", "j", "s" >>

\* The directory a request analyses, already canonical.
Root == Abs(<< N_r >>)

F_gitignore == Abs(<< N_r, N_gitignore >>)
F_a_js == Abs(<< N_r, N_a_js >>)
F_ign_s_js == Abs(<< N_r, N_ign, N_s_js >>)
F_lib_h_h == Abs(<< N_r, N_lib, N_h_h >>)
F_a_cpp == Abs(<< N_r, N_a_cpp >>)
F_user_py == Abs(<< N_r, N_user_py >>)
F_pkg_init == Abs(<< N_r, N_pkg, Str_init_py >>)
F_pkg_m_py == Abs(<< N_r, N_pkg, N_m_py >>)
F_sub_init == Abs(<< N_r, N_sub, Str_init_py >>)
F_src_b_rs == Abs(<< N_r, N_src, N_b_rs >>)
F_src_a_mod_rs == Abs(<< N_r, N_src, N_a, N_mod_rs >>)
\* A file outside the root, in a directory whose name starts with the root's.
F_rx_o_js == Abs(<< N_rx, N_o_js >>)

\* A second directory beside the root: a module file next to the directory of
\* the same name, and a .gitignore of the directory's own.
Rx == Abs(<< N_rx >>)
F_rx_o_index_js == Abs(<< N_rx, N_o, N_index_js >>)
F_rx_o_gitignore == Abs(<< N_rx, N_o, N_gitignore >>)

\* A third directory: the same for Python and Rust, and an index file with no
\* module file beside its directory.
Ry == Abs(<< N_ry >>)
F_ry_o_py == Abs(<< N_ry, N_o_py >>)
F_ry_o_init == Abs(<< N_ry, N_o, Str_init_py >>)
F_ry_o_rs == Abs(<< N_ry, N_o_rs >>)
F_ry_o_mod_rs == Abs(<< N_ry, N_o, N_mod_rs >>)
F_ry_o_index_js == Abs(<< N_ry, N_o, N_index_js >>)

\* The regular files on disk.
RegularFiles ==
    { F_gitignore, F_a_js, F_ign_s_js, F_lib_h_h, F_a_cpp, F_user_py, F_pkg_init,
      F_pkg_m_py, F_sub_init, F_src_b_rs, F_src_a_mod_rs, F_rx_o_js,
      F_rx_o_index_js, F_rx_o_gitignore, F_ry_o_py, F_ry_o_init, F_ry_o_rs,
      F_ry_o_mod_rs, F_ry_o_index_js }

\* The directories on disk: every proper ancestor of a regular file.
Directories ==
    UNION { { Abs(SubSeq(components(f), 1, k)) : k \in 0..(Len(components(f)) - 1) } :
            f \in RegularFiles }

\* Path::exists
exists(p) == p \in RegularFiles \/ p \in Directories

\* Path::is_file
is_file(p) == p \in RegularFiles

\* Path::is_dir
is_dir(p) == p \in Directories

\* The entries of each directory of the disk.
DirEntries ==
    [ dir \in Directories |->
        { p \in RegularFiles \cup Directories : has_parent(p) /\ parent(p) = dir } ]

\* fs::read_dir: the entries of a directory.
read_dir(dir) == DirEntries[dir]


(***************************************************************************)
(* The ignore matcher.  A .gitignore is a set of patterns without a slash  *)
(* inside: a name, matched against the base name of an entry at any depth, *)
(* for directories only when the pattern ends in "/".                      *)
(***************************************************************************)

\* A mutant of matched_is_ignore: a directory is never ignored.
matched_files_only(ig, path, dir) ==
    \E g \in ig : file_name(path) = g.name /\ ~g.dir_only /\ ~dir

\* Gitignore::matched(path, is_dir).is_ignore()
matched_is_ignore(ig, path, dir) ==
    \E g \in ig : file_name(path) = g.name /\ (g.dir_only => dir)

(***************************************************************************)
(* The tree builder.                                                       *)
(***************************************************************************)

Ok(v) == [ok |-> TRUE, value |-> v, error |-> << >>]
Err(e) == [ok |-> FALSE, value |-> << >>, error |-> e]

NoChildren == [some |-> FALSE, value |-> << >>]
SomeChildren(m) == [some |-> TRUE, value |-> m]

\* The comparison of build_tree's sort_by: a folder before a file, then the
\* natural comparison of the base names.
dirent_compare(a, b) ==
    IF is_dir(a) # is_dir(b) THEN (IF is_dir(a) THEN Less ELSE Greater)
    ELSE natural_compare(file_name(a), file_name(b))

\* The insertion of sort_by: e goes after the last entry it is not less than.
RECURSIVE dirent_insert(_, _, _)
dirent_insert(sorted, e, j) ==
    IF j > 0 /\ dirent_compare(e, sorted[j]) = Less
    THEN dirent_insert(sorted, e, j - 1)
    ELSE SubSeq(sorted, 1, j) \o << e >> \o SubSeq(sorted, j + 1, Len(sorted))

\* dirents.sort_by(...): a stable sort.
RECURSIVE sort_dirents(_, _)
sort_dirents(v, done) ==
    IF v = << >> THEN done
    ELSE sort_dirents(Tail(v), dirent_insert(done, v[1], Len(done)))

\* A mutant of first_failed: the failure of a subdirectory is passed over.
first_failed_skipped(dirents, sub) == 0

\* build_tree(&entry_path, ig)?: the first of the sorted entries whose
\* directory could not be built, 0 when there is none.
first_failed(dirents, sub) ==
    LET failed == { k \in 1..Len(dirents) : is_dir(dirents[k]) /\ ~sub[dirents[k]].ok }
    IN  IF failed = { } THEN 0 ELSE Min(failed)

\* build_tree: the entries of the directory that the matcher does not ignore,
\* sorted and then put into a map keyed by base name; a directory entry holds
\* the tree of its directory, built with the same matcher.  unread are the
\* directories whose listing fails, as does that of a path that is no
\* directory, and bad the paths whose entry cannot be read; a failure at any
\* depth fails the whole call.  The order in which
\* read_dir yields the entries is arbitrary; no two names of a directory of
\* the disk compare equal, so the sorted sequence does not depend on it.
RECURSIVE build_tree(_, _, _, _)
build_tree(path, ig, unread, bad) ==
    IF path \in unread \/ ~is_dir(path) THEN Err("Failed to read directory")
    ELSE IF read_dir(path) \cap bad # { } THEN Err("Failed to read directory entry")
    ELSE LET kept == { e \in read_dir(path) : ~matched_is_ignore(ig, e, is_dir(e)) }
             dirents == sort_dirents(some_order(kept), << >>)
             sub == [ e \in { d \in kept : is_dir(d) } |-> build_tree(e, ig, unread, bad) ]
             k == first_failed(dirents, sub)
         IN  IF k # 0
             THEN Err(sub[dirents[k]].error)
             ELSE Ok([ name \in { file_name(dirents[i]) : i \in 1..Len(dirents) } |->
                        LET e == CHOOSE d \in kept : file_name(d) = name
                        IN  IF is_dir(e)
                            THEN [node_type |-> "folder", path |-> e,
                                  children |-> SomeChildren(sub[e].value)]
                            ELSE [node_type |-> "file", path |-> e,
                                  children |-> NoChildren] ])

\* collect_files: the paths of the file nodes of a tree.  The order in which
\* the HashMap yields them is arbitrary; each analyser draws its own order.
RECURSIVE collect_files(_)
collect_files(node) ==
    UNION { (IF node[n].node_type = "file" THEN { node[n].path } ELSE { })
            \cup (IF node[n].children.some THEN collect_files(node[n].children.value)
                  ELSE { }) : n \in DOMAIN node }

(***************************************************************************)
(* The resolver.                                                           *)
(***************************************************************************)

\* A mutant of candidate_ok: any existing entry, a directory too.
candidate_exists(candidate, root_path) ==
    exists(candidate) /\ starts_with(candidate, root_path)

\* A mutant of candidate_ok: the root is a prefix of the text of the path.
candidate_text_prefix(candidate, root_path) ==
    is_file(candidate) /\ starts_with_text(candidate, root_path)

\* candidate.is_file() && candidate.starts_with(root_path)
candidate_ok(candidate, root_path) ==
    is_file(candidate) /\ starts_with(candidate, root_path)

\* A mutant of resolve_relative_path: the suffixes are tried from the last.
RECURSIVE resolve_from_last(_, _, _, _)
resolve_from_last(parent_dir, import_str, root_path, suffixes) ==
    IF suffixes = << >> THEN None
    ELSE LET candidate ==
                 clean(path_join(parent_dir, import_str \o suffixes[Len(suffixes)]))
         IN  IF candidate_ok(candidate, root_path) THEN candidate
             ELSE resolve_from_last(parent_dir, import_str, root_path,
                                    SubSeq(suffixes, 1, Len(suffixes) - 1))

\* resolve_relative_path: the first candidate, in the order of the suffixes,
\* that is a regular file under the root; none when there is no such suffix.
RECURSIVE resolve_relative_path(_, _, _, _)
resolve_relative_path(parent_dir, import_str, root_path, suffixes) ==
    IF suffixes = << >> THEN None
    ELSE LET candidate == clean(path_join(parent_dir, import_str \o suffixes[1]))
         IN  IF candidate_ok(candidate, root_path) THEN candidate
             ELSE resolve_relative_path(parent_dir, import_str, root_path, Tail(suffixes))

S_index == << "/", "i", "n", "d", "e", "x" >>

js_possible_exts ==
    << << >>, << ".", "j", "s" >>, << ".", "j", "s", "x" >>, << ".", "t", "s" >>,
       << ".", "t", "s", "x" >>, S_index \o << ".", "j", "s" >>,
       S_index \o << ".", "j", "s", "x" >>, S_index \o << ".", "t", "s" >>,
       S_index \o << ".", "t", "s", "x" >> >>

python_possible_exts == << << "." >> \o Str_py, << "/" >> \o Str_init_py >>

rust_possible_exts == << << "." >> \o Str_rs, << "/" >> \o N_mod_rs >>

cpp_possible_exts ==
    << << >>, << ".", "h" >>, << ".", "h", "p", "p" >>, << ".", "h", "x", "x" >> >>

(***************************************************************************)
(* The dependency graph: a map from a path to a sequence of paths.         *)
(***************************************************************************)

EmptyGraph == << >>

\* A mutant of entry_extend: the edge is filed under its target.
entry_extend_reversed(g, key, deps) ==
    IF deps = << >> THEN g
    ELSE IF deps[1] \in DOMAIN g THEN [g EXCEPT ![deps[1]] = @ \o << key >>]
    ELSE g @@ (deps[1] :> << key >>)

\* A mutant of entry_extend: every edge is filed under the first key made.
entry_extend_first_key(g, key, deps) ==
    IF DOMAIN g = { } THEN key :> deps
    ELSE LET k == CHOOSE k \in DOMAIN g : TRUE IN [g EXCEPT ![k] = @ \o deps]

\* dependency_graph.entry(key).or_default().extend(deps)
entry_extend(g, key, deps) ==
    IF key \in DOMAIN g THEN [g EXCEPT ![key] = @ \o deps] ELSE g @@ (key :> deps)

\* A mutant of extend_if_any: the entry is made even for no dependency.
extend_always(g, key, deps) == entry_extend(g, key, deps)

\* if !dependencies.is_empty() { entry(key).or_default().extend(dependencies) }
extend_if_any(g, key, deps) ==
    IF deps # << >> THEN entry_extend(g, key, deps) ELSE g

(***************************************************************************)
(* The analysers.  What a file holds is the sequence of matches its parse  *)
(* tree gives to the language's query: the index of the pattern, the text  *)
(* of the captured node and, for the third Python pattern, the imported    *)
(* names.                                                                  *)
(***************************************************************************)

Match(pattern, text) == [pattern_index |-> pattern, text |-> text, names |-> << >>]
MatchNames(pattern, dots, names) == [pattern_index |-> pattern, text |-> dots, names |-> names]

Quote == "\""
Apostrophe == "'"

\* The dependencies one JS/TS or C/C++ file gives: for each captured literal,
\* quotes trimmed, the path it resolves to, if any.
RECURSIVE literal_dependencies(_, _, _, _)
literal_dependencies(file_path, root_path, matches, suffixes) ==
    IF matches = << >> THEN << >>
    ELSE LET clean_import == trim_matches(trim_matches(matches[1].text, Quote), Apostrophe)
             resolved == IF has_parent(file_path)
                         THEN resolve_relative_path(parent(file_path), clean_import,
                                                    root_path, suffixes)
                         ELSE None
         IN  (IF resolved # None THEN << resolved >> ELSE << >>)
             \o literal_dependencies(file_path, root_path, Tail(matches), suffixes)

\* The number of leading dots of a module string.
RECURSIVE leading_dots(_)
leading_dots(s) == IF s # << >> /\ s[1] = "." THEN 1 + leading_dots(Tail(s)) ELSE 0

\* A mutant of python_clean_import: one directory is climbed for every dot.
python_clean_import_every_dot(module_str) ==
    IF module_str # << >> /\ module_str[1] = "."
    THEN LET num_dots == leading_dots(module_str)
         IN  repeat(<< ".", ".", "/" >>, num_dots)
             \o replace(SubSeq(module_str, num_dots + 1, Len(module_str)),
                        << "." >>, << "/" >>)
    ELSE replace(module_str, << "." >>, << "/" >>)

\* The rewrite of process_python_module: a relative module climbs one
\* directory for each dot after the first; dots inside become "/".
python_clean_import(module_str) ==
    IF module_str # << >> /\ module_str[1] = "."
    THEN LET num_dots == leading_dots(module_str)
             path_prefix == IF num_dots > 1 THEN repeat(<< ".", ".", "/" >>, num_dots - 1)
                            ELSE << >>
             module_part == SubSeq(module_str, num_dots + 1, Len(module_str))
         IN  path_prefix \o replace(module_part, << "." >>, << "/" >>)
    ELSE replace(module_str, << "." >>, << "/" >>)

\* process_python_module: the resolved path is pushed under the file's key.
process_python_module(module_str, file_path, root_path, g) ==
    LET resolved == IF has_parent(file_path)
                    THEN resolve_relative_path(parent(file_path),
                                               python_clean_import(module_str),
                                               root_path, python_possible_exts)
                    ELSE None
    IN  IF resolved # None THEN entry_extend(g, file_path, << resolved >>) ELSE g

\* A mutant of process_python_names: only the first name is processed.
process_first_name(dots, names, file_path, root_path, g) ==
    IF names = << >> THEN g
    ELSE process_python_module(dots \o names[1], file_path, root_path, g)

\* for name in names: the literal of each name is the dots and the name.
RECURSIVE process_python_names(_, _, _, _, _)
process_python_names(dots, names, file_path, root_path, g) ==
    IF names = << >> THEN g
    ELSE process_python_names(dots, Tail(names), file_path, root_path,
             process_python_module(dots \o names[1], file_path, root_path, g))

\* The match loop of analyze_python over one file.
RECURSIVE python_matches(_, _, _, _)
python_matches(file_path, root_path, matches, g) ==
    IF matches = << >> THEN g
    ELSE LET mat == matches[1]
             g1 == IF mat.pattern_index \in {0, 1}
                   THEN process_python_module(mat.text, file_path, root_path, g)
                   ELSE IF mat.pattern_index = 2
                   THEN process_python_names(mat.text, mat.names, file_path, root_path, g)
                   ELSE g
         IN  python_matches(file_path, root_path, Tail(matches), g1)

\* A mutant of rust_clean_import: "self::" is kept.
rust_clean_import_keeps_self(module_str) ==
    LET super_stripped == strip_prefix(module_str, << "s", "u", "p", "e", "r", ":", ":" >>)
    IN  replace(IF super_stripped # None THEN << ".", ".", "/" >> \o super_stripped
                ELSE module_str,
                << ":", ":" >>, << "/" >>)

\* The rewrite of analyze_rust.
rust_clean_import(module_str) ==
    LET self_stripped == strip_prefix(module_str, << "s", "e", "l", "f", ":", ":" >>)
        super_stripped == strip_prefix(module_str, << "s", "u", "p", "e", "r", ":", ":" >>)
        rewritten == IF self_stripped # None THEN self_stripped
                     ELSE IF super_stripped # None THEN << ".", ".", "/" >> \o super_stripped
                     ELSE module_str
    IN  replace(rewritten, << ":", ":" >>, << "/" >>)

RECURSIVE rust_dependencies(_, _, _)
rust_dependencies(file_path, root_path, matches) ==
    IF matches = << >> THEN << >>
    ELSE LET resolved == IF has_parent(file_path)
                         THEN resolve_relative_path(parent(file_path),
                                                    rust_clean_import(matches[1].text),
                                                    root_path, rust_possible_exts)
                         ELSE None
         IN  (IF resolved # None THEN << resolved >> ELSE << >>)
             \o rust_dependencies(file_path, root_path, Tail(matches))

JsExtensions == { Str_js, << "j", "s", "x" >>, << "t", "s" >>, << "t", "s", "x" >> }
PythonExtensions == { Str_py }
RustExtensions == { Str_rs }
CppExtensions == { << "c", "p", "p" >>, << "c" >>, << "h" >>, << "h", "p", "p" >>,
                   << "h", "x", "x" >> }

\* A mutant of read_to_string_fails: every file can be read.
read_to_string_never_fails(file_path, unread) == FALSE

\* fs::read_to_string(file_path) is an Err: unread are the files it fails on.
read_to_string_fails(file_path, unread) == file_path \in unread

\* One pass of an analyser's file loop, which skips the files that cannot be
\* read.
js_file(file_path, root_path, matches, unread, g) ==
    IF read_to_string_fails(file_path, unread) THEN g
    ELSE extend_if_any(g, file_path,
                       literal_dependencies(file_path, root_path, matches, js_possible_exts))

python_file(file_path, root_path, matches, unread, g) ==
    IF read_to_string_fails(file_path, unread) THEN g
    ELSE python_matches(file_path, root_path, matches, g)

rust_file(file_path, root_path, matches, unread, g) ==
    IF read_to_string_fails(file_path, unread) THEN g
    ELSE extend_if_any(g, file_path, rust_dependencies(file_path, root_path, matches))

cpp_file(file_path, root_path, matches, unread, g) ==
    IF read_to_string_fails(file_path, unread) THEN g
    ELSE extend_if_any(g, file_path,
                       literal_dependencies(file_path, root_path, matches, cpp_possible_exts))

\* The languages, in the order analyze_dependencies runs them.
Languages == << "js", "python", "rust", "cpp" >>

accepts(lang, file_path) ==
    CASE lang = "js" -> extension(file_path) \in JsExtensions
      [] lang = "python" -> extension(file_path) \in PythonExtensions
      [] lang = "rust" -> extension(file_path) \in RustExtensions
      [] lang = "cpp" -> extension(file_path) \in CppExtensions

analyze_file(lang, file_path, root_path, matches, unread, g) ==
    CASE lang = "js" -> js_file(file_path, root_path, matches, unread, g)
      [] lang = "python" -> python_file(file_path, root_path, matches, unread, g)
      [] lang = "rust" -> rust_file(file_path, root_path, matches, unread, g)
      [] lang = "cpp" -> cpp_file(file_path, root_path, matches, unread, g)

\* An analyser's loop over its files, in the order given.
RECURSIVE analyze_files(_, _, _, _, _, _)
analyze_files(lang, order, root_path, contents, unread, g) ==
    IF order = << >> THEN g
    ELSE analyze_files(lang, Tail(order), root_path, contents, unread,
                       analyze_file(lang, order[1], root_path, contents[order[1]], unread, g))

\* A mutant of analyze_language: one failed setup stops every analyser.
analyze_all_or_none(lang, failures, order, root_path, contents, unread, g) ==
    IF failures # { } THEN g
    ELSE analyze_files(lang, order, root_path, contents, unread, g)

\* One analyser: when parser.set_language or Query::new fails it returns at
\* once and leaves the graph as it is; otherwise it loops over its files.
analyze_language(lang, failures, order, root_path, contents, unread, g) ==
    IF lang \in failures THEN g
    ELSE analyze_files(lang, order, root_path, contents, unread, g)

(***************************************************************************)
(* The __init__.py expander's helpers.                                     *)
(***************************************************************************)

\* Path::new(dep).file_name() == Some("__init__.py")
is_init(dep) == file_name(dep) = Str_init_py

\* The insertion of sort_by: x goes after the last element it is not less than.
RECURSIVE insert_tail(_, _, _)
insert_tail(sorted, x, j) ==
    IF j > 0 /\ natural_compare(x, sorted[j]) = Less
    THEN insert_tail(sorted, x, j - 1)
    ELSE SubSeq(sorted, 1, j) \o << x >> \o SubSeq(sorted, j + 1, Len(sorted))

RECURSIVE insertion_sort(_, _)
insertion_sort(v, done) ==
    IF v = << >> THEN done
    ELSE CHOOSE r \in { insertion_sort(Tail(v), inserted) :
                           inserted \in { insert_tail(done, v[1], Len(done)) } } : TRUE

\* A mutant of sort_by_natord: the sequence is left as the set yielded it.
sort_by_nothing(v) == v

\* sorted_deps.sort_by(|a, b| natord::compare(a, b)): a stable sort, an
\* insertion sort for the short sequences of the model.
sort_by_natord(v) == insertion_sort(v, << >>)


(***************************************************************************)
(* Bounds of the model.                                                    *)
(***************************************************************************)

\* The matches one source file holds, at most.
MaxImports == 1
\* The source files that hold a match, at most.
MaxActive == 1
\* The edges of a graph given to the expander on its own, at most.
MaxEdges == 3
\* The depth of the recursion of collect_transitive_init_deps, at most.
MaxStack == 4
MaxPaths == 3

(***************************************************************************)
(* What the files of the disk may hold.                                    *)
(***************************************************************************)

S_dot_slash == << ".", "/" >>
S_dotdot_slash == << ".", ".", "/" >>

\* The matches a source file may hold, by file.
PossibleMatches(f) ==
    CASE f = F_a_js ->
            { Match(0, S_dot_slash \o N_a),                          \* itself
              Match(0, S_dotdot_slash \o N_rx \o << "/", "o" >>),    \* outside the root
              Match(1, S_dot_slash \o N_ign \o << "/", "s" >>),      \* in ign/
              Match(1, S_dot_slash \o N_lib) }                       \* a directory
      [] f = F_user_py -> { Match(0, N_pkg), Match(0, << "u", "s", "e", "r" >>) }
      [] f = F_pkg_init -> { Match(1, << "." >> \o << "m" >>),
                             Match(1, << ".", "." >> \o N_sub),
                             Match(1, << ".", "." >> \o N_pkg) }               \* itself
      [] f = F_sub_init -> { Match(1, << ".", "." >> \o N_pkg) }
      [] f = F_src_a_mod_rs -> { Match(1, << "s", "u", "p", "e", "r", ":", ":", "b" >>),
                                 Match(1, << "s", "u", "p", "e", "r", ":", ":", "a" >>) }
      [] f = F_a_cpp -> { Match(0, N_lib \o << "/" >> \o N_h_h), Match(0, N_a_cpp) }
      [] OTHER -> { }

SourceFiles == { f \in RegularFiles : PossibleMatches(f) # { } }

\* The sequences of 1..n elements of S.
SeqsUpTo(S, n) == UNION { [1..k -> S] : k \in 1..n }

NoContents == [ f \in RegularFiles |-> << >> ]

\* What the files hold: at most MaxActive source files hold matches, at most
\* MaxImports each.
PossibleContents ==
    UNION { { [ f \in RegularFiles |-> IF f \in DOMAIN c THEN c[f] ELSE << >> ] :
              c \in { c \in [active -> SeqsUpTo(UNION { PossibleMatches(f) : f \in active },
                                                MaxImports)] :
                      \A f \in active : Range(c[f]) \subseteq PossibleMatches(f) } } :
            active \in { a \in SUBSET SourceFiles : Cardinality(a) <= MaxActive } }

\* Two source files hold one match each.
PairContents ==
    UNION { { [ f \in RegularFiles |-> IF f \in pair THEN << m[f] >> ELSE << >> ] :
              m \in { m \in [pair -> UNION { PossibleMatches(f) : f \in pair }] :
                      \A f \in pair : m[f] \in PossibleMatches(f) } } :
            pair \in { a \in SUBSET SourceFiles : Cardinality(a) = 2 } }

MaxNames == 2

\* The names a dots-only import of /r/pkg/__init__.py may import: m, sub and
\* user resolve from "." or from "..", x never does.
ImportedNames == { << "m" >>, N_sub, << "u", "s", "e", "r" >>, << "x" >> }

\* /r/pkg/__init__.py holds dots-only imports and nothing else holds a match:
\* one statement whose names come in one match, or in one match each.
NamesContents ==
    { [ NoContents EXCEPT ![F_pkg_init] = ms ] :
      ms \in UNION { { << MatchNames(2, dots, names) >>,
                       [ i \in 1..Len(names) |-> MatchNames(2, dots, << names[i] >>) ] } :
                     dots \in { << "." >>, << ".", "." >> },
                     names \in SeqsUpTo(ImportedNames, MaxNames) } }

P_ign_dir == [name |-> N_ign, dir_only |-> TRUE]

\* What /r/.gitignore may hold: nothing, or the pattern "ign/".
PossibleGitignores == { { }, { P_ign_dir } }

Missing == Abs(<< << "n", "o" >> >>)

(***************************************************************************)
(* The state.                                                              *)
(***************************************************************************)

VARIABLES
    gitignore,          \* the patterns of the root's .gitignore
    nested_gitignore,   \* the patterns of the .gitignore of the directory /rx/o
    contents,           \* what each regular file holds
    unreadable,         \* the directories and files whose reading fails
    bad_entries,        \* the paths whose directory entry cannot be read
    uncanonical,        \* the existing paths that cannot be made canonical
    setup_failures,     \* the languages whose grammar or query cannot be set up
    req_path,           \* the path of the request
    pc,                 \* where the request stands
    path,               \* the validated root
    tree,               \* the tree built for the request
    files_to_scan,      \* the file paths collected from the tree
    dependency_graph,   \* the graph the analysers fill, the expander's input
    expanded_graph,     \* the graph the expander builds
    todo,               \* the keys the expander's loop has yet to take
    file,               \* the key being expanded, or none
    final_deps,         \* the set gathered for that key
    dep_index,          \* the next of the key's direct dependencies
    visited,            \* the visited set of the traversal under way
    stack,              \* the calls of collect_transitive_init_deps under way
    traversals,         \* history: how often, up to twice, the dependency list of each
                        \* node has been traversed for the key being expanded
    round,              \* the application of the expander under way: 1 or 2
    first_input,        \* the input of the first application
    first_expanded,     \* the result of the first application
    response,           \* the response of the request, or none
    resolve_input,      \* the arguments of a call of resolve_relative_path
    resolve_output,     \* what the call returned
    rewrite_input,      \* an import literal and the file that holds it
    rewrite_output,     \* the rewritten literal and what it resolved to
    server_env,         \* what main finds: the environment, the TLS files, the port
    server,             \* where main stands, the listener it has bound, its error
    dir_req_path,       \* the path of a /api/directory request
    dir_pc,             \* where that request stands
    dir_path,           \* its validated root
    dir_tree,           \* the tree built for it
    dir_response,       \* its response
    files_req,          \* the paths of a /api/files request
    files_index,        \* how many of them have been taken
    files_in_flight,    \* the positions of the paths whose read is under way
    files_results,      \* the results gathered so far
    files_response      \* its response

diskVars ==
    << gitignore, nested_gitignore, contents, unreadable, bad_entries, uncanonical,
       setup_failures >>
requestVars == << req_path, path, tree, files_to_scan, response >>
expanderVars ==
    << expanded_graph, todo, file, final_deps, dep_index, visited, stack, traversals >>
roundVars == << round, first_input, first_expanded >>
resolveVars == << resolve_input, resolve_output >>
rewriteVars == << rewrite_input, rewrite_output >>
startupVars == << server_env, server >>
directoryVars == << dir_req_path, dir_pc, dir_path, dir_tree, dir_response >>
filesVars == << files_req, files_index, files_in_flight, files_results, files_response >>
otherCallVars == << resolveVars, rewriteVars, startupVars, directoryVars, filesVars >>
dependencyVars == << requestVars, pc, dependency_graph, expanderVars, roundVars >>

vars == << diskVars, dependencyVars, otherCallVars >>

NoResponse == [success |-> FALSE, root |-> None, error |-> "", dependencyGraph |-> EmptyGraph,
               sent |-> FALSE]

InitRequest ==
    /\ pc = "start"
    /\ path = None
    /\ tree = << >>
    /\ files_to_scan = { }
    /\ response = NoResponse

InitExpander ==
    /\ dependency_graph = EmptyGraph
    /\ expanded_graph = EmptyGraph
    /\ todo = { }
    /\ file = None
    /\ final_deps = { }
    /\ dep_index = 0
    /\ visited = { }
    /\ stack = << >>
    /\ traversals = << >>
    /\ round = 1
    /\ first_input = EmptyGraph
    /\ first_expanded = EmptyGraph

NoCall == [parent_dir |-> None, import_str |-> << >>, root_path |-> None, suffixes |-> << >>]

NoLiteral == [language |-> "", module_str |-> << >>, file_path |-> None]
NotRewritten == [clean_import |-> << >>, dependencies |-> << >>, done |-> FALSE]

\* No call of the resolver on its own is under way, and no literal is being
\* rewritten on its own.
InitResolver ==
    /\ resolve_input = NoCall
    /\ resolve_output = None
    /\ rewrite_input = NoLiteral
    /\ rewrite_output = NotRewritten

NoListener == [scheme |-> "none", host |-> "", port |-> ""]
NoEnv == [CERT_PATH |-> "unset", KEY_PATH |-> "unset", PORT |-> "unset",
          key_material |-> "ok", port_free |-> TRUE]

\* main is not under way.
InitServerIdle ==
    /\ server_env = NoEnv
    /\ server = [pc |-> "idle", listener |-> NoListener, error |-> ""]

NoDirectoryResponse ==
    [success |-> FALSE, root |-> None, error |-> "", tree |-> << >>, order |-> << >>,
     sent |-> FALSE]

\* No /api/directory request is under way.
InitDirectory ==
    /\ dir_req_path = None
    /\ dir_pc = "idle"
    /\ dir_path = None
    /\ dir_tree = << >>
    /\ dir_response = NoDirectoryResponse

NoFilesResponse == [success |-> FALSE, files |-> << >>, sent |-> FALSE]

\* No /api/files request is under way.
InitFiles ==
    /\ files_req = << >>
    /\ files_index = 0
    /\ files_in_flight = { }
    /\ files_results = << >>
    /\ files_response = NoFilesResponse

\* Every entry can be read and every existing path can be made canonical.
NoFaults ==
    /\ bad_entries = { }
    /\ uncanonical = { }
    /\ setup_failures = { }

\* The languages whose setup may fail: one of them, or all.
PossibleSetupFailures == { { lang } : lang \in Range(Languages) } \cup { Range(Languages) }

\* A request for the root over a readable disk, for a missing path, for the
\* root with one directory that cannot be listed, for the root with two
\* files that hold an import, of which at most one cannot be read, for the
\* root with a file that holds dots-only imports, or for the root with two
\* files that hold an import and languages whose setup fails.
Init ==
    /\ \/ /\ req_path = Root
          /\ gitignore \in PossibleGitignores
          /\ contents \in PossibleContents
          /\ unreadable = { }
          /\ setup_failures = { }
       \/ /\ req_path = Missing
          /\ gitignore = { }
          /\ contents = NoContents
          /\ unreadable = { }
          /\ setup_failures = { }
       \/ /\ req_path = Root
          /\ gitignore = { }
          /\ contents = NoContents
          /\ unreadable \in { { d } : d \in { d \in Directories : starts_with(d, Root) } }
          /\ setup_failures = { }
       \/ /\ req_path = Root
          /\ gitignore = { }
          /\ contents \in PairContents
          /\ unreadable \in { { } } \cup { { f } : f \in { f \in SourceFiles : contents[f] # << >> } }
          /\ setup_failures = { }
       \/ /\ req_path = Root
          /\ gitignore = { }
          /\ contents \in NamesContents
          /\ unreadable = { }
          /\ setup_failures = { }
       \/ /\ req_path = Root
          /\ gitignore = { }
          /\ contents \in PairContents
          /\ unreadable = { }
          /\ setup_failures \in PossibleSetupFailures
    /\ nested_gitignore = { }
    /\ bad_entries = { }
    /\ uncanonical = { }
    /\ InitRequest
    /\ InitExpander
    /\ InitResolver
    /\ InitServerIdle
    /\ InitDirectory
    /\ InitFiles

(***************************************************************************)
(* The /api/dependencies handler.                                          *)
(***************************************************************************)

\* validate_path: the path must exist; it is then made canonical, which fails
\* for the paths of no_canon.
validate_path(requested_path, no_canon) ==
    IF ~exists(requested_path) THEN Err("Path does not exist")
    ELSE IF requested_path \in no_canon THEN Err("Failed to canonicalize path")
    ELSE Ok(clean(requested_path))

\* Gitignore::new(path.join(".gitignore")): the patterns of the file, none when
\* there is no such file or it cannot be read.
Gitignore_new(gitignore_path) ==
    IF gitignore_path \in unreadable THEN { }
    ELSE IF gitignore_path = F_gitignore THEN gitignore
    ELSE IF gitignore_path = F_rx_o_gitignore THEN nested_gitignore
    ELSE { }

\* A mutant of Failure: the error is sent with success.
Failure_with_success(e) == [NoResponse EXCEPT !.success = TRUE, !.error = e, !.sent = TRUE]

\* HttpResponse::Ok().json(json!({"success": false, "error": e}))
Failure(e) == [NoResponse EXCEPT !.error = e, !.sent = TRUE]

ValidatePath ==
    /\ pc = "start"
    /\ LET r == validate_path(req_path, uncanonical)
       IN  IF r.ok
           THEN /\ path' = r.value
                /\ pc' = "validated"
                /\ UNCHANGED response
           ELSE /\ response' = Failure(r.error)
                /\ pc' = "done"
                /\ UNCHANGED path
    /\ UNCHANGED << diskVars, otherCallVars, req_path, tree, files_to_scan, dependency_graph,
                    expanderVars, roundVars >>

\* Gitignore::new(path.join(".gitignore")) and build_tree(&path, &gitignore)
BuildTree ==
    /\ pc = "validated"
    /\ LET r == build_tree(path, Gitignore_new(path_join(path, N_gitignore)), unreadable,
                            bad_entries)
       IN  IF r.ok
           THEN /\ tree' = r.value
                /\ pc' = "tree_built"
                /\ UNCHANGED response
           ELSE /\ response' = Failure(r.error)
                /\ pc' = "done"
                /\ UNCHANGED tree
    /\ UNCHANGED << diskVars, otherCallVars, req_path, path, files_to_scan, dependency_graph,
                    expanderVars, roundVars >>

\* analyze_dependencies, first part: an empty graph and the collected files.
CollectFiles ==
    /\ pc = "tree_built"
    /\ files_to_scan' = collect_files(tree)
    /\ dependency_graph' = EmptyGraph
    /\ pc' = "collected"
    /\ UNCHANGED << diskVars, otherCallVars, req_path, path, tree, response, expanderVars, roundVars >>

\* One analyser: its files, in the order files_to_scan holds them.
Analyze(lang, from, to) ==
    /\ pc = from
    /\ \E order \in Orders({ f \in files_to_scan : accepts(lang, f) }) :
          dependency_graph' =
              analyze_language(lang, setup_failures, order, path, contents, unreadable,
                               dependency_graph)
    /\ pc' = to
    /\ UNCHANGED << diskVars, otherCallVars, requestVars, expanderVars, roundVars >>

AnalyzeJavascriptTypescript == Analyze("js", "collected", "js_done")
AnalyzePython == Analyze("python", "js_done", "python_done")
AnalyzeRust == Analyze("rust", "python_done", "rust_done")
AnalyzeCpp == Analyze("cpp", "rust_done", "analyzed")

(***************************************************************************)
(* expand_init_dependencies and collect_transitive_init_deps, step by step.*)
(***************************************************************************)

Frame(init_file, idx) == [init_file |-> init_file, idx |-> idx]

Top == stack[Len(stack)]
Pop == SubSeq(stack, 1, Len(stack) - 1)

\* The visited set lives as long as the outermost call: it is dropped when
\* the last call returns.
Dropped(calls, seen) == IF calls = << >> THEN { } ELSE seen

\* expand_init_dependencies is called: its loop is over the keys of the input.
ExpandCall ==
    /\ pc = "analyzed"
    /\ pc' = "expand"
    /\ expanded_graph' = EmptyGraph
    /\ todo' = DOMAIN dependency_graph
    /\ UNCHANGED << diskVars, otherCallVars, requestVars, dependency_graph, file, final_deps, dep_index,
                    visited, stack, traversals, roundVars >>

\* A mutant of seed_final_deps: the set starts empty.
seed_empty(direct_deps) == { }

\* let mut final_deps: HashSet<String> = direct_deps.iter().cloned().collect()
seed_final_deps(direct_deps) == Range(direct_deps)

\* The loop takes a key, in the order the HashMap yields them, and seeds
\* final_deps with its direct dependencies.
ExpandNextFile ==
    /\ pc = "expand"
    /\ file = None
    /\ \E f \in todo :
          /\ file' = f
          /\ todo' = todo \ { f }
          /\ final_deps' = seed_final_deps(dependency_graph[f])
    /\ dep_index' = 1
    /\ traversals' = << >>
    /\ UNCHANGED << diskVars, otherCallVars, requestVars, pc, dependency_graph, expanded_graph,
                    visited, stack, roundVars >>

\* The inner loop takes a direct dependency; for an __init__.py it calls
\* collect_transitive_init_deps with a new visited set.
ExpandDirectDep ==
    /\ pc = "expand"
    /\ file # None
    /\ stack = << >>
    /\ dep_index <= Len(dependency_graph[file])
    /\ LET dep == dependency_graph[file][dep_index]
       IN  IF is_init(dep)
           THEN /\ visited' = { }
                /\ stack' = << Frame(dep, 0) >>
           ELSE UNCHANGED << visited, stack >>
    /\ dep_index' = dep_index + 1
    /\ UNCHANGED << diskVars, otherCallVars, requestVars, pc, dependency_graph, expanded_graph, todo,
                    file, final_deps, traversals, roundVars >>

\* A mutant of newly_visited: the visited set is not consulted.
newly_visited_always(seen, init_file) == TRUE

\* visited.insert(init_file): true when init_file was not in the set.
newly_visited(seen, init_file) == init_file \notin seen

\* The history after one more traversal of the list of a node.
traversed_again(history, node) ==
    (node :> (IF node \in DOMAIN history THEN 2 ELSE 1)) @@ history

\* A call of collect_transitive_init_deps starts: it returns at once for a
\* node already visited or a node that is no key of the graph.
CollectEnter ==
    /\ pc = "expand"
    /\ stack # << >>
    /\ Top.idx = 0
    /\ IF ~newly_visited(visited, Top.init_file)
       THEN /\ stack' = Pop
            /\ visited' = Dropped(Pop, visited)
            /\ UNCHANGED traversals
       ELSE /\ stack' = IF Top.init_file \in DOMAIN dependency_graph
                        THEN [stack EXCEPT ![Len(stack)].idx = 1]
                        ELSE Pop
            /\ visited' = Dropped(stack', visited \cup { Top.init_file })
            /\ traversals' = IF Top.init_file \in DOMAIN dependency_graph
                             THEN traversed_again(traversals, Top.init_file)
                             ELSE traversals
    /\ UNCHANGED << diskVars, otherCallVars, requestVars, pc, dependency_graph, expanded_graph, todo,
                    file, final_deps, dep_index, roundVars >>

\* A mutant of recurse_into: every dependency is followed.
recurse_into_all(dep) == TRUE

\* A mutant of recurse_into: no dependency is followed.
recurse_into_none(dep) == FALSE

\* The recursion of collect_transitive_init_deps is through __init__.py only.
recurse_into(dep) == is_init(dep)

\* The loop of a call takes a dependency of its node: it joins final_deps and,
\* for an __init__.py, is the node of a nested call.  The call returns after
\* the last.
CollectStep ==
    /\ pc = "expand"
    /\ stack # << >>
    /\ Top.idx >= 1
    /\ LET init_direct_deps == dependency_graph[Top.init_file]
       IN  IF Top.idx > Len(init_direct_deps)
           THEN /\ stack' = Pop
                /\ visited' = Dropped(Pop, visited)
                /\ UNCHANGED final_deps
           ELSE LET dep == init_direct_deps[Top.idx]
                    advanced == [stack EXCEPT ![Len(stack)].idx = Top.idx + 1]
                IN  \E nested \in { recurse_into(dep) } :
                       /\ nested => Len(stack) < MaxStack
                       /\ final_deps' = final_deps \cup { dep }
                       /\ stack' = IF nested
                                   THEN Append(advanced, Frame(dep, 0))
                                   ELSE advanced
                       /\ UNCHANGED visited
    /\ UNCHANGED << diskVars, otherCallVars, requestVars, pc, dependency_graph, expanded_graph, todo,
                    file, dep_index, traversals, roundVars >>

\* A mutant of expanded_insert: every dependency becomes a key as well.
expanded_insert_dependencies(g, key, deps) ==
    (key :> deps) @@ g @@ [ d \in Range(deps) |-> << >> ]

\* expanded_graph.insert(file.clone(), sorted_deps)
expanded_insert(g, key, deps) == (key :> deps) @@ g

\* The key's set is drained in the order the HashSet yields it, sorted and
\* inserted in the result.
ExpandInsert ==
    /\ pc = "expand"
    /\ file # None
    /\ stack = << >>
    /\ dep_index > Len(dependency_graph[file])
    /\ \E sorted_deps \in Orders(final_deps) :
          expanded_graph' = expanded_insert(expanded_graph, file, sort_by_natord(sorted_deps))
    /\ file' = None
    /\ final_deps' = { }
    /\ dep_index' = 0
    /\ traversals' = << >>
    /\ UNCHANGED << diskVars, otherCallVars, requestVars, pc, dependency_graph, todo, visited, stack,
                    roundVars >>

\* The loop is over: expand_init_dependencies returns expanded_graph.
ExpandReturn ==
    /\ pc = "expand"
    /\ file = None
    /\ todo = { }
    /\ pc' = "expanded"
    /\ UNCHANGED << diskVars, otherCallVars, requestVars, dependency_graph, expanderVars, roundVars >>

Expand ==
    \/ ExpandNextFile
    \/ ExpandDirectDep
    \/ CollectEnter
    \/ CollectStep
    \/ ExpandInsert
    \/ ExpandReturn

\* A mutant of ready_to_respond: the handler answers during the expansion.
ready_while_expanding(at) == at \in { "expand", "expanded" }

\* expand_init_dependencies has returned.
ready_to_respond(at) == at = "expanded"

\* The handler answers with the expanded graph.
Respond ==
    /\ ready_to_respond(pc)
    /\ req_path # None
    /\ response' = [success |-> TRUE, root |-> path, error |-> "",
                    dependencyGraph |-> expanded_graph, sent |-> TRUE]
    /\ pc' = "done"
    /\ UNCHANGED << diskVars, otherCallVars, req_path, path, tree, files_to_scan, dependency_graph,
                    expanderVars, roundVars >>

\* The future of the handler is dropped before it answers, and its locals
\* with it.
Cancel ==
    /\ req_path # None
    /\ pc \in { "start", "validated", "tree_built", "collected", "js_done", "python_done",
                 "rust_done", "analyzed", "expand", "expanded" }
    /\ pc' = "cancelled"
    /\ path' = None
    /\ tree' = << >>
    /\ files_to_scan' = { }
    /\ dependency_graph' = EmptyGraph
    /\ expanded_graph' = EmptyGraph
    /\ todo' = { }
    /\ file' = None
    /\ final_deps' = { }
    /\ dep_index' = 0
    /\ visited' = { }
    /\ stack' = << >>
    /\ traversals' = << >>
    /\ UNCHANGED << diskVars, otherCallVars, req_path, response, roundVars >>

Next ==
    \/ ValidatePath
    \/ BuildTree
    \/ CollectFiles
    \/ AnalyzeJavascriptTypescript
    \/ AnalyzePython
    \/ AnalyzeRust
    \/ AnalyzeCpp
    \/ ExpandCall
    \/ Expand
    \/ Respond
    \/ Cancel

Spec == Init /\ [][Next]_vars

(***************************************************************************)
(* The expander on its own: a graph over a few paths is built edge by      *)
(* edge, as the analysers push edges, and the expander is applied to it    *)
(* and then to its own result.                                             *)
(***************************************************************************)

\* Two __init__.py files, whose directories differ in a space only, and a
\* file whose number is smaller and whose text is greater than theirs.
Node_p10_init == Abs(<< << "p", "1", "0" >>, Str_init_py >>)
Node_p_10_init == Abs(<< << "p", " ", "1", "0" >>, Str_init_py >>)
Node_p2_py == Abs(<< << "p", "2", ".", "p", "y" >> >>)

Nodes == { Node_p10_init, Node_p_10_init, Node_p2_py }

InitExpand ==
    /\ gitignore = { }
    /\ contents = NoContents
    /\ unreadable = { }
    /\ req_path = None
    /\ path = None
    /\ tree = << >>
    /\ files_to_scan = { }
    /\ response = NoResponse
    /\ pc = "build"
    /\ InitExpander
    /\ nested_gitignore = { }
    /\ NoFaults
    /\ InitResolver
    /\ InitServerIdle
    /\ InitDirectory
    /\ InitFiles

RECURSIVE sum_lengths(_, _)
sum_lengths(g, keys) ==
    IF keys = { } THEN 0
    ELSE LET k == CHOOSE k \in keys : TRUE
         IN  Len(g[k]) + sum_lengths(g, keys \ { k })

Edges(g) == sum_lengths(g, DOMAIN g)

\* An analyser pushes an edge: entry(key).or_default().push(dep).
PushEdge ==
    /\ pc = "build"
    /\ Edges(dependency_graph) < MaxEdges
    /\ \E key \in Nodes, dep \in Nodes :
          dependency_graph' = entry_extend(dependency_graph, key, << dep >>)
    /\ UNCHANGED << diskVars, otherCallVars, requestVars, pc, expanderVars, roundVars >>

\* The expander is applied to the graph built.
ApplyFirst ==
    /\ pc = "build"
    /\ pc' = "expand"
    /\ first_input' = dependency_graph
    /\ expanded_graph' = EmptyGraph
    /\ todo' = DOMAIN dependency_graph
    /\ UNCHANGED << diskVars, otherCallVars, requestVars, dependency_graph, file, final_deps, dep_index,
                    visited, stack, traversals, round, first_expanded >>

\* The expander is applied to its own result.
ApplyAgain ==
    /\ pc = "expanded"
    /\ req_path = None
    /\ round = 1
    /\ round' = 2
    /\ first_expanded' = expanded_graph
    /\ dependency_graph' = expanded_graph
    /\ expanded_graph' = EmptyGraph
    /\ todo' = DOMAIN expanded_graph
    /\ pc' = "expand"
    /\ UNCHANGED << diskVars, otherCallVars, requestVars, file, final_deps, dep_index, visited, stack,
                    traversals, first_input >>

\* Both applications have returned.
Finish ==
    /\ pc = "expanded"
    /\ req_path = None
    /\ round = 2
    /\ pc' = "done"
    /\ UNCHANGED << diskVars, otherCallVars, requestVars, dependency_graph, expanderVars, roundVars >>

NextExpand ==
    \/ PushEdge
    \/ ApplyFirst
    \/ Expand
    \/ ApplyAgain
    \/ Finish

SpecExpand == InitExpand /\ [][NextExpand]_vars

\* The expander applied once: the only application has returned.
FinishOnce ==
    /\ pc = "expanded"
    /\ req_path = None
    /\ round = 1
    /\ pc' = "done"
    /\ UNCHANGED << diskVars, otherCallVars, requestVars, dependency_graph, expanderVars, roundVars >>

NextExpandOnce ==
    \/ PushEdge
    \/ ApplyFirst
    \/ Expand
    \/ FinishOnce

SpecExpandOnce == InitExpand /\ [][NextExpandOnce]_vars

\* The steps of the single-threaded expander are taken as long as one is
\* possible.
FairSpecExpandOnce == SpecExpandOnce /\ WF_vars(NextExpandOnce)

(***************************************************************************)
(* Vocabulary of the properties.                                           *)
(***************************************************************************)

\* analyze_dependencies has just returned dependency_graph to a request.
Analyzed == req_path # None /\ pc = "analyzed"

\* expand_init_dependencies has just returned expanded_graph to a request.
Expanded == req_path # None /\ pc = "expanded"

\* Every dependency path of graph g.
Values(g) == UNION { Range(g[k]) : k \in DOMAIN g }

HasSelfEdge(g) == \E k \in DOMAIN g : k \in Range(g[k])

\* The dependencies of node n in graph g; none for a node that is no key.
Deps(g, n) == IF n \in DOMAIN g THEN Range(g[n]) ELSE { }

\* The least set that holds the __init__.py nodes of R and every __init__.py
\* dependency of a member.
RECURSIVE InitClosure(_, _)
InitClosure(g, R) ==
    LET more == R \cup { d \in UNION { Deps(g, n) : n \in R } : is_init(d) }
    IN  IF more = R THEN R ELSE InitClosure(g, more)

\* The __init__.py nodes reached from key k along __init__.py nodes only.
InitReach(g, k) == InitClosure(g, { d \in Deps(g, k) : is_init(d) })

\* The text of a string without its whitespace.
RECURSIVE without_whitespace(_)
without_whitespace(s) ==
    IF s = << >> THEN << >>
    ELSE (IF is_whitespace(s[1]) THEN << >> ELSE << s[1] >>) \o without_whitespace(Tail(s))

\* Path d, under the root, is hidden from the tree builder: the matcher
\* ignores it or one of the directories between the root and it.
HiddenByIgnore(ig, root_path, d) ==
    LET cs == components(d)
    IN  \E k \in (Len(components(root_path)) + 1)..Len(cs) :
           matched_is_ignore(ig, Abs(SubSeq(cs, 1, k)), k < Len(cs))

\* The suffixes of the language of a file, and its import strings after the
\* language's rewrite.
SuffixesOf(f) ==
    IF accepts("js", f) THEN js_possible_exts
    ELSE IF accepts("python", f) THEN python_possible_exts
    ELSE IF accepts("rust", f) THEN rust_possible_exts
    ELSE IF accepts("cpp", f) THEN cpp_possible_exts
    ELSE << >>

ImportStringsOf(f, matches) ==
    UNION { IF accepts("python", f)
            THEN IF m.pattern_index = 2
                 THEN { python_clean_import(m.text \o n) : n \in Range(m.names) }
                 ELSE { python_clean_import(m.text) }
            ELSE IF accepts("rust", f) THEN { rust_clean_import(m.text) }
            ELSE { trim_matches(trim_matches(m.text, Quote), Apostrophe) } : m \in Range(matches) }

\* Every candidate path the imports of a file give.
CandidatesOf(f, matches) ==
    { clean(path_join(parent(f), i \o SuffixesOf(f)[k])) :
        i \in ImportStringsOf(f, matches), k \in 1..Len(SuffixesOf(f)) }

(***************************************************************************)
(* C1.  Every dependency path of a returned graph, after analysis and      *)
(* after expansion, is a regular file on disk and has the analysis root as *)
(* a path prefix; a file whose imports have candidates outside the root    *)
(* only is given no edge.                                                  *)
(***************************************************************************)
C1_DependenciesAreFilesUnderRoot ==
    /\ Analyzed =>
          /\ \A d \in Values(dependency_graph) : is_file(d) /\ starts_with(d, path)
          /\ \A f \in files_to_scan :
                (/\ contents[f] # << >>
                 /\ \A c \in CandidatesOf(f, contents[f]) : ~starts_with(c, path))
                => f \notin DOMAIN dependency_graph
    /\ Expanded =>
          \A d \in Values(expanded_graph) : is_file(d) /\ starts_with(d, path)

\* A request is answered for a file whose only import resolves, suffix ".js",
\* to a regular file outside the root: the file has no edge.
C1_Witness ==
    /\ pc = "done"
    /\ response.success
    /\ \E f \in files_to_scan :
          /\ contents[f] # << >>
          /\ \E c \in CandidatesOf(f, contents[f]) : is_file(c) /\ ~starts_with(c, path)
          /\ f \notin DOMAIN response.dependencyGraph

(***************************************************************************)
(* C2.  analyze_dependencies never inserts a file into the dependency      *)
(* sequence of its own key.                                                *)
(***************************************************************************)
C2_NoSelfEdgeInserted == Analyzed => ~HasSelfEdge(dependency_graph)

(***************************************************************************)
(* C3.  After expansion no key maps to a sequence that holds the key, in   *)
(* particular for an input graph that has no self-edge itself.             *)
(***************************************************************************)
C3_NoSelfEdgeAfterExpansion ==
    (pc = "expanded" /\ ~HasSelfEdge(dependency_graph)) => ~HasSelfEdge(expanded_graph)

C6_ExpansionTerminates ==
    /\ <>(pc = "done")
    /\ [](\A i, j \in 1..Len(stack) :
             (i # j /\ stack[i].idx >= 1 /\ stack[j].idx >= 1)
             => stack[i].init_file # stack[j].init_file)

\* The expander has returned for a graph in which two __init__.py nodes depend
\* on each other and one of them depends on itself.
C6_Witness ==
    /\ pc = "done"
    /\ \E a, b \in DOMAIN first_input :
          /\ a # b
          /\ is_init(a) /\ is_init(b)
          /\ b \in Range(first_input[a])
          /\ { a, b } \subseteq Range(first_input[b])

(***************************************************************************)
(* C7.  For each key the expanded set is the direct dependencies together  *)
(* with the dependencies of every __init__.py node reached from a direct   *)
(* __init__.py dependency along __init__.py nodes only.                    *)
(***************************************************************************)
C7_ExpandedSetIsInitClosure ==
    pc = "expanded" =>
        \A k \in DOMAIN dependency_graph :
           Range(expanded_graph[k]) =
               Deps(dependency_graph, k)
               \cup UNION { Deps(dependency_graph, n) : n \in InitReach(dependency_graph, k) }

\* A key has been expanded with a path it reaches only through a chain of two
\* __init__.py nodes, and without the dependency of a direct dependency that
\* is no __init__.py.
C7_Witness ==
    /\ pc = "expanded"
    /\ round = 1
    /\ \/ \E k \in DOMAIN dependency_graph :
             \E a \in Deps(dependency_graph, k) :
                \E b \in Deps(dependency_graph, a) \ Deps(dependency_graph, k) :
                   /\ is_init(a) /\ is_init(b)
                   /\ \E c \in Deps(dependency_graph, b) :
                         /\ c \notin Deps(dependency_graph, k) \cup Deps(dependency_graph, a)
                         /\ c \in Range(expanded_graph[k])
       \/ \E k \in DOMAIN dependency_graph :
             \E a \in Deps(dependency_graph, k) :
                /\ ~is_init(a)
                /\ \E c \in Deps(dependency_graph, a) : c \notin Range(expanded_graph[k])

(***************************************************************************)
(* C8.  Every dependency path was visible to the tree builder: it is one   *)
(* of the files collected from the tree.                                   *)
(***************************************************************************)
C8_DependenciesVisibleToTreeBuilder ==
    /\ Analyzed => Values(dependency_graph) \subseteq files_to_scan
    /\ Expanded => Values(expanded_graph) \subseteq files_to_scan

(***************************************************************************)
(* C8, amended.  Every dependency path is one of the files collected from  *)
(* the tree or a regular file under the root that the ignore rules hide    *)
(* from the tree builder: the resolver does not consult the ignore rules.  *)
(***************************************************************************)
C8_DependenciesVisibleOrIgnored ==
    /\ Analyzed =>
          \A d \in Values(dependency_graph) :
             \/ d \in files_to_scan
             \/ is_file(d) /\ starts_with(d, path) /\ HiddenByIgnore(gitignore, path, d)
    /\ Expanded =>
          \A d \in Values(expanded_graph) :
             \/ d \in files_to_scan
             \/ is_file(d) /\ starts_with(d, path) /\ HiddenByIgnore(gitignore, path, d)

\* A request is answered with an edge to a file that is not in the tree.
C8_Witness ==
    /\ pc = "done"
    /\ response.success
    /\ \E d \in Values(response.dependencyGraph) : d \notin files_to_scan

(***************************************************************************)
(* C9.  Every key of the graph, after analysis and after expansion, is the *)
(* path of a file node of the tree: a member of the collected file list.   *)
(***************************************************************************)
C9_KeysAreCollectedFiles ==
    /\ Analyzed => DOMAIN dependency_graph \subseteq collect_files(tree)
    /\ Expanded => DOMAIN expanded_graph \subseteq collect_files(tree)

\* A request is answered with a graph that has a key, whose dependency is a
\* file hidden from the tree.
C9_Witness ==
    /\ pc = "done"
    /\ response.success
    /\ \E k \in DOMAIN response.dependencyGraph :
          \E d \in Range(response.dependencyGraph[k]) : d \notin collect_files(tree)

(***************************************************************************)
(* C10.  No key maps to an empty sequence, after analysis or after         *)
(* expansion: a file none of whose imports resolves is no key.             *)
(***************************************************************************)
C10_NoEmptySequence ==
    /\ Analyzed =>
          /\ \A k \in DOMAIN dependency_graph : dependency_graph[k] # << >>
          /\ \A f \in files_to_scan :
                (\A c \in CandidatesOf(f, contents[f]) : ~candidate_ok(c, path))
                => f \notin DOMAIN dependency_graph
    /\ Expanded =>
          \A k \in DOMAIN expanded_graph : expanded_graph[k] # << >>

\* A request is answered for a file that holds an import that does not
\* resolve: the file is no key of the graph.
C10_Witness ==
    /\ pc = "done"
    /\ response.success
    /\ \E f \in files_to_scan :
          /\ contents[f] # << >>
          /\ \A c \in CandidatesOf(f, contents[f]) : ~candidate_ok(c, path)
          /\ f \notin DOMAIN response.dependencyGraph

(***************************************************************************)
(* The resolver on its own: one call of resolve_relative_path, with the    *)
(* suffix list of one of the analysers.                                    *)
(***************************************************************************)

\* The disk as it is read when nothing fails and no file holds an import.
InitPlainDisk ==
    /\ gitignore = { }
    /\ nested_gitignore = { }
    /\ contents = NoContents
    /\ unreadable = { }
    /\ NoFaults

\* No /api/dependencies request is under way.
InitDependencyIdle ==
    /\ req_path = None
    /\ pc = "idle"
    /\ path = None
    /\ tree = << >>
    /\ files_to_scan = { }
    /\ response = NoResponse
    /\ InitExpander

Pending == << "pending" >>

ResolveParents == { Root, Rx, Ry, Abs(<< N_r, N_src >>), Abs(<< N_ry, N_o >>) }

\* "o", "./o", "./x", "a", "pkg", "../rx/o", "lib/h"
ResolveImports ==
    { N_o, S_dot_slash \o N_o, S_dot_slash \o << "x" >>, N_a, N_pkg,
      S_dotdot_slash \o N_rx \o << "/" >> \o N_o, N_lib \o << "/", "h" >> }

ResolveRoots == { Root, Rx, Ry }

ResolveSuffixes ==
    { js_possible_exts, python_possible_exts, rust_possible_exts, cpp_possible_exts }

InitResolve ==
    /\ InitPlainDisk
    /\ InitDependencyIdle
    /\ InitDirectory
    /\ InitFiles
    /\ InitServerIdle
    /\ rewrite_input = NoLiteral
    /\ rewrite_output = NotRewritten
    /\ resolve_input \in [parent_dir : ResolveParents, import_str : ResolveImports,
                           root_path : ResolveRoots, suffixes : ResolveSuffixes]
    /\ resolve_output = Pending

ResolveCall ==
    /\ resolve_input # NoCall
    /\ resolve_output = Pending
    /\ resolve_output' = resolve_relative_path(resolve_input.parent_dir,
                                                resolve_input.import_str,
                                                resolve_input.root_path,
                                                resolve_input.suffixes)
    /\ UNCHANGED << diskVars, dependencyVars, resolve_input, rewriteVars, startupVars,
                    directoryVars,
                    filesVars >>

NextResolve == ResolveCall

SpecResolve == InitResolve /\ [][NextResolve]_vars

\* The call of the resolver has returned.
Resolved == resolve_input # NoCall /\ resolve_output # Pending

\* The candidate of the k-th suffix of a call.
CandidateAt(in, k) ==
    clean(path_join(in.parent_dir, in.import_str \o in.suffixes[k]))

\* The suffixes of a call whose candidate is a regular file under the root.
Qualifying(in) ==
    { k \in 1..Len(in.suffixes) :
        is_file(CandidateAt(in, k)) /\ starts_with(CandidateAt(in, k), in.root_path) }

(***************************************************************************)
(* C11.  resolve_relative_path returns the cleaned candidate of the        *)
(* earliest suffix whose candidate is a regular file with the root as a    *)
(* path prefix, and none when no suffix qualifies: X.py wins over          *)
(* X/__init__.py, X.rs over X/mod.rs, X.js over X/index.js.                *)
(***************************************************************************)
C11_EarliestQualifyingSuffix ==
    Resolved =>
        IF Qualifying(resolve_input) = { } THEN resolve_output = None
        ELSE resolve_output = CandidateAt(resolve_input, Min(Qualifying(resolve_input)))

\* A call returned the module file although the package file of the same
\* name qualifies as well.
C11_Witness ==
    /\ Resolved
    /\ Cardinality(Qualifying(resolve_input)) >= 2
    /\ resolve_output \in { F_ry_o_py, F_ry_o_rs, F_rx_o_js }

(***************************************************************************)
(* The /api/directory handler.                                             *)
(***************************************************************************)

DirectoryFailure(e) == [NoDirectoryResponse EXCEPT !.error = e, !.sent = TRUE]

DirectoryValidatePath ==
    /\ dir_pc = "start"
    /\ LET r == validate_path(dir_req_path, uncanonical)
       IN  IF r.ok
           THEN /\ dir_path' = r.value
                /\ dir_pc' = "validated"
                /\ UNCHANGED dir_response
           ELSE /\ dir_response' = DirectoryFailure(r.error)
                /\ dir_pc' = "done"
                /\ UNCHANGED dir_path
    /\ UNCHANGED << diskVars, dependencyVars, resolveVars, rewriteVars, startupVars, filesVars, dir_req_path, dir_tree >>

\* A mutant of local_path: the root validated last, by whichever request, is
\* the root of every request.
shared_path(own, other) == IF other # None THEN other ELSE own

\* let path = ...: the validated root is a local of the call, which no other
\* call reads or writes.
local_path(own, other) == own

\* Gitignore::new(path.join(".gitignore")) and build_tree(&path, &gitignore)
DirectoryBuildTree ==
    /\ dir_pc = "validated"
    /\ LET root_path == local_path(dir_path, path)
           r == build_tree(root_path, Gitignore_new(path_join(root_path, N_gitignore)),
                           unreadable, bad_entries)
       IN  IF r.ok
           THEN /\ dir_tree' = r.value
                /\ dir_pc' = "tree_built"
                /\ UNCHANGED dir_response
           ELSE /\ dir_response' = DirectoryFailure(r.error)
                /\ dir_pc' = "done"
                /\ UNCHANGED dir_tree
    /\ UNCHANGED << diskVars, dependencyVars, resolveVars, rewriteVars, startupVars, filesVars, dir_req_path, dir_path >>

\* The folders of a tree, the root's among them: the path of each, with the
\* names its map holds.
RECURSIVE folder_names(_, _)
folder_names(node, folder) ==
    { << folder, DOMAIN node >> }
    \cup UNION { folder_names(node[n].children.value, node[n].path) :
                 n \in { n \in DOMAIN node : node[n].children.some } }

\* The serialisations of a tree: every folder is a HashMap, written in the
\* order in which the map yields its entries, which is any order.
Presentations(node, folder) ==
    LET pairs == folder_names(node, folder)
        names == [ f \in { x[1] : x \in pairs } |-> (CHOOSE x \in pairs : x[1] = f)[2] ]
    IN  { order \in [DOMAIN names -> UNION { Orders(names[f]) : f \in DOMAIN names }] :
            \A f \in DOMAIN names : order[f] \in Orders(names[f]) }

\* The handler answers with the tree.
DirectoryRespond ==
    /\ dir_pc = "tree_built"
    /\ \E order \in Presentations(dir_tree, dir_path) :
          dir_response' = [success |-> TRUE, root |-> dir_path, error |-> "",
                           tree |-> dir_tree, order |-> order, sent |-> TRUE]
    /\ dir_pc' = "done"
    /\ UNCHANGED << diskVars, dependencyVars, resolveVars, rewriteVars, startupVars, filesVars, dir_req_path, dir_path,
                    dir_tree >>

NextDirectory ==
    \/ DirectoryValidatePath
    \/ DirectoryBuildTree
    \/ DirectoryRespond

Rx_o == Abs(<< N_rx, N_o >>)

P_index_js == [name |-> N_index_js, dir_only |-> FALSE]

\* What /rx/o/.gitignore may hold: nothing, or the pattern "index.js".
PossibleNestedGitignores == { { }, { P_index_js } }

\* The paths beside the root, the root's own excepted.
Beside == { p \in RegularFiles \cup Directories : starts_with(p, Rx) \/ starts_with(p, Ry) }

\* At most one failure: a directory that cannot be listed, an entry that
\* cannot be read, or a requested path that cannot be made canonical.
InitFaults(requested) ==
    \/ unreadable = { } /\ bad_entries = { } /\ uncanonical = { }
    \/ /\ unreadable \in { { d } : d \in Beside \cap Directories }
       /\ bad_entries = { }
       /\ uncanonical = { }
    \/ /\ unreadable = { }
       /\ bad_entries \in { { e } : e \in Beside \ { Rx, Ry } }
       /\ uncanonical = { }
    \/ /\ unreadable = { }
       /\ bad_entries = { }
       /\ uncanonical = { requested }

InitDirectoryRequest ==
    /\ dir_req_path \in { Rx, Ry, Rx_o, Missing, F_rx_o_js }
    /\ dir_pc = "start"
    /\ dir_path = None
    /\ dir_tree = << >>
    /\ dir_response = NoDirectoryResponse

InitDirectoryAlone ==
    /\ gitignore = { }
    /\ nested_gitignore \in PossibleNestedGitignores
    /\ contents = NoContents
    /\ InitDirectoryRequest
    /\ InitFaults(dir_req_path)
    /\ setup_failures = { }
    /\ InitDependencyIdle
    /\ InitResolver
    /\ InitServerIdle
    /\ InitFiles

SpecDirectory == InitDirectoryAlone /\ [][NextDirectory]_vars

\* The paths of the nodes of a tree, files and folders.
RECURSIVE tree_paths(_)
tree_paths(node) ==
    UNION { { node[n].path }
            \cup (IF node[n].children.some THEN tree_paths(node[n].children.value)
                  ELSE { }) : n \in DOMAIN node }

\* The paths strictly below a directory.
Below(root_path) ==
    { p \in RegularFiles \cup Directories : p # root_path /\ starts_with(p, root_path) }

\* build_tree has been called for the directory request.
DirectoryBuilt == dir_path # None /\ dir_pc \in { "tree_built", "done" }

\* The matcher of the directory request.
DirectoryMatcher == Gitignore_new(path_join(dir_path, N_gitignore))

\* The matcher in force in a directory below the root when a directory with
\* a .gitignore of its own replaces the matcher for its subtree.
RECURSIVE matcher_in_force(_, _)
matcher_in_force(root_path, dir) ==
    IF dir = root_path \/ is_file(path_join(dir, N_gitignore))
    THEN Gitignore_new(path_join(dir, N_gitignore))
    ELSE matcher_in_force(root_path, parent(dir))

\* The ancestors of a path strictly below the root, the path among them.
UpTo(root_path, p) ==
    { q \in Below(root_path) : starts_with(p, q) }

(***************************************************************************)
(* C12.  When build_tree recurses into a child directory that holds its    *)
(* own .gitignore, the subtree of that directory is filtered by a fresh    *)
(* matcher built from that file, in place of the parent's; in every other  *)
(* directory the parent's matcher is in force.                             *)
(***************************************************************************)
C12_NestedGitignoreReplaces ==
    (DirectoryBuilt /\ dir_pc = "tree_built") =>
        \A p \in Below(dir_path) :
            p \in tree_paths(dir_tree)
            <=> \A q \in UpTo(dir_path, p) :
                   ~matched_is_ignore(matcher_in_force(dir_path, parent(q)), q, is_dir(q))

(***************************************************************************)
(* C13.  In the tree returned by build_tree the entries of every folder    *)
(* are presented folders first, then by the natural comparison of their    *)
(* base names.                                                             *)
(***************************************************************************)
C13_FoldersFirstThenNatural ==
    dir_response.success =>
        \A f \in DOMAIN dir_response.order :
            LET names == dir_response.order[f]
            IN  \A i, j \in 1..Len(names) :
                   i < j =>
                      LET a == path_join(f, names[i])
                          b == path_join(f, names[j])
                      IN  \/ is_dir(a) /\ ~is_dir(b)
                          \/ /\ is_dir(a) = is_dir(b)
                             /\ natural_compare(names[i], names[j]) # Greater

\* Some directory that build_tree visits cannot be listed, or holds an entry
\* that cannot be read.
DirectoryBuildFails ==
    \/ ~is_dir(dir_path)
    \/ \E d \in { dir_path } \cup (Below(dir_path) \cap Directories) :
          /\ d = dir_path \/ ~HiddenByIgnore(DirectoryMatcher, dir_path, d)
          /\ d \in unreadable \/ read_dir(d) \cap bad_entries # { }

(***************************************************************************)
(* C14.  build_tree returns a complete tree or an error: when the reading  *)
(* of a directory or of an entry fails at any depth the whole call fails,  *)
(* and no partial tree is returned.                                        *)
(***************************************************************************)
C14_CompleteTreeOrError ==
    DirectoryBuilt =>
        IF DirectoryBuildFails
        THEN /\ dir_pc = "done"
             /\ ~dir_response.success
             /\ dir_response.error \in
                    { "Failed to read directory", "Failed to read directory entry" }
             /\ dir_response.tree = << >>
             /\ dir_tree = << >>
        ELSE /\ tree_paths(dir_tree) =
                    { p \in Below(dir_path) : ~HiddenByIgnore(DirectoryMatcher, dir_path, p) }
             /\ dir_pc = "done" => dir_response.success /\ dir_response.tree = dir_tree

\* The request failed for a fault in a directory below the requested one.
C14_Witness ==
    /\ DirectoryBuilt
    /\ dir_pc = "done"
    /\ ~dir_response.success
    /\ dir_response.tree = << >>
    /\ \E d \in Below(dir_path) \cap Directories :
          d \in unreadable \/ read_dir(d) \cap bad_entries # { }

(***************************************************************************)
(* The analysers over files that cannot be read, and over the orders in    *)
(* which collect_files yields the files.                                   *)
(***************************************************************************)

\* The graph the four analysers build, in the order of the languages, when
\* each takes its files in one fixed order.
RECURSIVE analysis_in_some_order(_, _, _, _, _, _)
analysis_in_some_order(langs, files, root_path, held, unread, g) ==
    IF langs = << >> THEN g
    ELSE analysis_in_some_order(
             Tail(langs), files, root_path, held, unread,
             analyze_files(langs[1], some_order({ f \in files : accepts(langs[1], f) }),
                           root_path, held, unread, g))

\* The languages whose setup succeeds, in the order of the analysers.
WorkingLanguages == SelectSeq(Languages, LAMBDA lang : lang \notin setup_failures)

\* The contents of the disk, with nothing in the files that cannot be read.
ReadableContents ==
    [ f \in RegularFiles |-> IF f \in unreadable THEN << >> ELSE contents[f] ]

\* Some files cannot be read, and nothing else fails.
SomeFileUnreadable ==
    /\ unreadable # { }
    /\ unreadable \subseteq RegularFiles
    /\ exists(req_path)
    /\ bad_entries = { }
    /\ uncanonical = { }

(***************************************************************************)
(* C15.  When some source files cannot be read the request still answers   *)
(* success: an unreadable file contributes no edge and is no key, and the  *)
(* edges of the other files are those that would be found if the           *)
(* unreadable files held no import.                                        *)
(***************************************************************************)
C15_UnreadableFilesAreSkipped ==
    /\ (Analyzed /\ SomeFileUnreadable) =>
          /\ \A f \in unreadable : f \notin DOMAIN dependency_graph
          /\ dependency_graph =
                analysis_in_some_order(WorkingLanguages, files_to_scan, path, ReadableContents,
                                       { }, EmptyGraph)
    /\ (pc = "done" /\ SomeFileUnreadable) =>
          /\ response.success
          /\ \A f \in unreadable : f \notin DOMAIN response.dependencyGraph

\* A request is answered with the edges of a file beside a file that cannot
\* be read, whose import would have resolved.
C15_Witness ==
    /\ pc = "done"
    /\ response.success
    /\ response.dependencyGraph # EmptyGraph
    /\ \E f \in unreadable :
          /\ f \in files_to_scan
          /\ \E c \in CandidatesOf(f, contents[f]) : candidate_ok(c, path)
          /\ f \notin DOMAIN response.dependencyGraph

(***************************************************************************)
(* C18.  For fixed contents of the disk analyze_dependencies is            *)
(* deterministic up to the order of the keys: in whatever order            *)
(* collect_files yields the files, the graph has the same keys and, for    *)
(* each key, the same sequence of dependencies.                            *)
(***************************************************************************)
C18_SameGraphInEveryOrder ==
    Analyzed =>
        dependency_graph =
            analysis_in_some_order(WorkingLanguages, files_to_scan, path, contents, unreadable,
                                   EmptyGraph)

\* The analysis ended with two keys of one language, which the analyser of
\* that language took in either order.
C18_Witness ==
    /\ Analyzed
    /\ \E lang \in Range(Languages) :
          Cardinality({ k \in DOMAIN dependency_graph : accepts(lang, k) }) >= 2

(***************************************************************************)
(* C20.  A dependency request publishes a graph in its final response      *)
(* only, after the tree is built, the four analysers have run and the      *)
(* expansion has completed; a request that is cancelled or fails before    *)
(* publishes no graph, and none that is partly built.                      *)
(***************************************************************************)
C20_GraphOnlyInFinalResponse ==
    req_path # None =>
        /\ pc # "done" => response = NoResponse
        /\ response.sent =>
              IF response.success
              THEN /\ pc = "done"
                   /\ tree = build_tree(path, Gitignore_new(path_join(path, N_gitignore)),
                                         unreadable, bad_entries).value
                   /\ files_to_scan = collect_files(tree)
                   /\ todo = { }
                   /\ file = None
                   /\ DOMAIN expanded_graph = DOMAIN dependency_graph
                   /\ response.dependencyGraph = expanded_graph
              ELSE response.dependencyGraph = EmptyGraph

\* A request was cancelled after its analysers had found an edge, and
\* nothing was published.
C20_Witness ==
    /\ pc = "cancelled"
    /\ response = NoResponse
    /\ \E f \in SourceFiles :
          \E c \in CandidatesOf(f, contents[f]) : candidate_ok(c, Root)

(***************************************************************************)
(* The /api/files handler: the paths of the request are read one after     *)
(* the other and the results are collected into a map keyed by path.       *)
(***************************************************************************)

Some(v) == << "some", v >>

\* tokio_fs::read_to_string: the text of a regular file that can be read.
read_to_string(file_path, held, unread) ==
    IF ~exists(file_path) THEN Err("No such file or directory")
    ELSE IF is_dir(file_path) THEN Err("Is a directory")
    ELSE IF file_path \in unread THEN Err("Permission denied")
    ELSE Ok(held[file_path])

\* The FileResult of a read.
file_result(r) ==
    IF r.ok THEN [success |-> TRUE, content |-> Some(r.value), error |-> None]
    ELSE [success |-> FALSE, content |-> None, error |-> Some(r.error)]

\* A mutant of hash_insert: the result of a failed read is left out.
hash_insert_unless_failed(m, k, v) ==
    IF v.success THEN [ x \in DOMAIN m \cup { k } |-> IF x = k THEN v ELSE m[x] ] ELSE m

\* HashMap::insert, as collect() applies it to each pair: the value of a key
\* that is present is replaced.
hash_insert(m, k, v) ==
    [ x \in DOMAIN m \cup { k } |-> IF x = k THEN v ELSE m[x] ]

\* StreamExt::then: the stream takes its next item only when the future of
\* the item before has completed.
then_polls_next(pending) == pending = { }

\* The stream takes the next path and its read starts.
FilesStartRead ==
    /\ files_index + Cardinality(files_in_flight) < Len(files_req)
    /\ then_polls_next(files_in_flight)
    /\ files_in_flight' =
           files_in_flight \cup { files_index + Cardinality(files_in_flight) + 1 }
    /\ UNCHANGED << diskVars, dependencyVars, resolveVars, rewriteVars, startupVars,
                    directoryVars, files_req,
                    files_index, files_results, files_response >>

\* One step of the stream: the read of the next path completes and its result
\* is collected.
FilesReadNext ==
    /\ files_index + 1 \in files_in_flight
    /\ LET path_str == files_req[files_index + 1]
       IN  files_results' =
               hash_insert(files_results, path_str,
                           file_result(read_to_string(path_str, contents, unreadable)))
    /\ files_index' = files_index + 1
    /\ files_in_flight' = files_in_flight \ { files_index + 1 }
    /\ UNCHANGED << diskVars, dependencyVars, resolveVars, rewriteVars, startupVars,
                    directoryVars, files_req,
                    files_response >>

\* The handler answers with the collected results.
FilesRespond ==
    /\ files_index = Len(files_req)
    /\ files_in_flight = { }
    /\ ~files_response.sent
    /\ files_response' = [success |-> TRUE, files |-> files_results, sent |-> TRUE]
    /\ UNCHANGED << diskVars, dependencyVars, resolveVars, rewriteVars, startupVars,
                    directoryVars, files_req,
                    files_index, files_in_flight, files_results >>

NextFiles ==
    \/ FilesStartRead
    \/ FilesReadNext
    \/ FilesRespond

\* The paths a request may name: two regular files, a directory and a path
\* that does not exist.
FilePaths == { F_user_py, F_a_js, Root, Missing }

InitFilesRequest ==
    /\ gitignore = { }
    /\ nested_gitignore = { }
    /\ contents \in { NoContents, [NoContents EXCEPT ![F_user_py] = << Match(0, N_pkg) >>] }
    /\ unreadable \in { { }, { F_a_js } }
    /\ NoFaults
    /\ files_req \in { << >> } \cup SeqsUpTo(FilePaths, MaxPaths)
    /\ files_index = 0
    /\ files_in_flight = { }
    /\ files_results = << >>
    /\ files_response = NoFilesResponse
    /\ InitDependencyIdle
    /\ InitResolver
    /\ InitServerIdle
    /\ InitDirectory

SpecFiles == InitFilesRequest /\ [][NextFiles]_vars

(***************************************************************************)
(* C17.  /api/files always answers success, with exactly one entry for     *)
(* each distinct path of the request: the entry has success and the        *)
(* content, and no error, exactly when the file was read, and otherwise    *)
(* no success, an error and no content; the failure of one path leaves     *)
(* the entries of the other paths as they are.                             *)
(***************************************************************************)
C17_OneEntryPerDistinctPath ==
    files_response.sent =>
        /\ files_response.success
        /\ DOMAIN files_response.files = Range(files_req)
        /\ \A k \in DOMAIN files_response.files :
              LET entry == files_response.files[k]
              IN  IF is_file(k) /\ k \notin unreadable
                  THEN /\ entry.success
                       /\ entry.content = Some(contents[k])
                       /\ entry.error = None
                  ELSE /\ ~entry.success
                       /\ entry.content = None
                       /\ entry.error # None

\* A request that names a path twice, a file that is read and a path whose
\* reading fails was answered.
C17_Witness ==
    /\ files_response.sent
    /\ Cardinality(Range(files_req)) < Len(files_req)
    /\ \E k \in DOMAIN files_response.files : files_response.files[k].success
    /\ \E k \in DOMAIN files_response.files : ~files_response.files[k].success

(***************************************************************************)
(* Two requests served at once: the steps of a /api/dependencies request   *)
(* and of a /api/directory request are interleaved in every way.           *)
(***************************************************************************)

\* Nothing, or user.py importing pkg and pkg/__init__.py importing .m.
ParallelContents ==
    { NoContents,
      [NoContents EXCEPT ![F_user_py] = << Match(0, N_pkg) >>,
                         ![F_pkg_init] = << Match(1, << ".", "m" >>) >>] }

InitParallel ==
    /\ gitignore = { }
    /\ nested_gitignore = { }
    /\ contents \in ParallelContents
    /\ req_path \in { Root, Rx, Missing }
    /\ dir_req_path \in { Rx, Missing, F_rx_o_js }
    /\ \E requested \in { req_path, dir_req_path } : InitFaults(requested)
    /\ setup_failures = { }
    /\ InitRequest
    /\ InitExpander
    /\ dir_pc = "start"
    /\ dir_path = None
    /\ dir_tree = << >>
    /\ dir_response = NoDirectoryResponse
    /\ InitResolver
    /\ InitServerIdle
    /\ InitFiles

NextParallel ==
    \/ Next
    \/ NextDirectory

SpecParallel == InitParallel /\ [][NextParallel]_vars

\* build_tree fails for a requested path that exists: the path is no
\* directory, or a directory that build_tree visits cannot be listed or
\* holds an entry that cannot be read.
TreeFails(requested) ==
    LET root_path == clean(requested)
        ig == Gitignore_new(path_join(root_path, N_gitignore))
    IN  \/ ~is_dir(root_path)
        \/ \E d \in { root_path } \cup (Below(root_path) \cap Directories) :
              /\ d = root_path \/ ~HiddenByIgnore(ig, root_path, d)
              /\ d \in unreadable \/ read_dir(d) \cap bad_entries # { }

\* The path of a request does not exist, cannot be made canonical, or its
\* tree cannot be built.
RequestFails(requested) ==
    \/ ~exists(requested)
    \/ requested \in uncanonical
    \/ TreeFails(requested)

(***************************************************************************)
(* C16.  A directory or dependency request whose path does not exist,      *)
(* cannot be made canonical, or whose tree cannot be built answers         *)
(* success false with an error message, and with neither a tree nor a      *)
(* dependency graph.                                                       *)
(***************************************************************************)
C16_FailureCarriesErrorOnly ==
    /\ (pc = "done" /\ RequestFails(req_path)) =>
          /\ response.sent
          /\ ~response.success
          /\ response.error # ""
          /\ response.root = None
          /\ response.dependencyGraph = EmptyGraph
    /\ (dir_pc = "done" /\ RequestFails(dir_req_path)) =>
          /\ dir_response.sent
          /\ ~dir_response.success
          /\ dir_response.error # ""
          /\ dir_response.root = None
          /\ dir_response.tree = << >>
          /\ dir_response.order = << >>

\* A dependency request failed in build_tree and a directory request in
\* validate_path, or the other way round.
C16_Witness ==
    /\ pc = "done"
    /\ dir_pc = "done"
    /\ ~response.success
    /\ ~dir_response.success
    /\ { response.error, dir_response.error } \cap
          { "Failed to read directory", "Failed to read directory entry" } # { }
    /\ { response.error, dir_response.error } \cap
          { "Path does not exist", "Failed to canonicalize path" } # { }

\* The response of a dependency request served alone.  No two paths of the
\* disk compare equal, so the sorted sequence of a set of them is one.
DependencyAlone(requested) ==
    LET v == validate_path(requested, uncanonical)
        t == build_tree(v.value, Gitignore_new(path_join(v.value, N_gitignore)),
                        unreadable, bad_entries)
        g == analysis_in_some_order(WorkingLanguages, collect_files(t.value), v.value, contents,
                                    unreadable, EmptyGraph)
    IN  IF ~v.ok THEN Failure(v.error)
        ELSE IF ~t.ok THEN Failure(t.error)
        ELSE [success |-> TRUE, root |-> v.value, error |-> "",
              dependencyGraph |->
                  [ k \in DOMAIN g |->
                      sort_by_natord(some_order(
                          Deps(g, k) \cup UNION { Deps(g, n) : n \in InitReach(g, k) })) ],
              sent |-> TRUE]

\* The responses of a directory request served alone: one for each order in
\* which the maps of the tree may be written.
DirectoryAlone(requested) ==
    LET v == validate_path(requested, uncanonical)
        t == build_tree(v.value, Gitignore_new(path_join(v.value, N_gitignore)),
                        unreadable, bad_entries)
    IN  IF ~v.ok THEN { DirectoryFailure(v.error) }
        ELSE IF ~t.ok THEN { DirectoryFailure(t.error) }
        ELSE { [success |-> TRUE, root |-> v.value, error |-> "", tree |-> t.value,
                order |-> order, sent |-> TRUE] :
               order \in Presentations(t.value, v.value) }

(***************************************************************************)
(* C19.  Requests served at once do not interfere: a directory or a        *)
(* dependency request interleaved with another returns the response it     *)
(* returns when it is served alone.                                        *)
(***************************************************************************)
C19_SameResponseAsAlone ==
    /\ pc = "done" => response = DependencyAlone(req_path)
    /\ dir_pc = "done" => dir_response \in DirectoryAlone(dir_req_path)

\* Both requests were answered with success, the dependency request with
\* edges.
C19_Witness ==
    /\ pc = "done"
    /\ dir_pc = "done"
    /\ response.success
    /\ response.dependencyGraph # EmptyGraph
    /\ dir_response.success
    /\ req_path # dir_req_path


(***************************************************************************)
(* The rewrite of import literals on its own: one Python or Rust literal,  *)
(* put together from a few pieces, is rewritten and resolved from the file *)
(* that holds it, on the plain disk.                                       *)
(***************************************************************************)

MaxPieces == 5

S_self == << "s", "e", "l", "f" >>
S_super == << "s", "u", "p", "e", "r" >>
S_colons == << ":", ":" >>
S_mod == << "m", "o", "d" >>

PythonPieces == { << "." >>, N_pkg, << "m" >>, S_mod }
RustPieces == { S_self, S_super, S_colons, N_a, << "b" >> }

\* The literals of up to MaxPieces pieces.
Literals(pieces) == { concat_all(ps) : ps \in SeqsUpTo(pieces, MaxPieces) }

InitRewrite ==
    /\ InitPlainDisk
    /\ InitDependencyIdle
    /\ InitDirectory
    /\ InitFiles
    /\ InitServerIdle
    /\ resolve_input = NoCall
    /\ resolve_output = None
    /\ \/ rewrite_input \in [language : { "python" }, module_str : Literals(PythonPieces),
                             file_path : { F_user_py, F_pkg_init }]
       \/ rewrite_input \in [language : { "rust" }, module_str : Literals(RustPieces),
                             file_path : { F_src_b_rs, F_src_a_mod_rs }]
    /\ rewrite_output = NotRewritten

\* process_python_module on one literal of a file, into an empty graph.
RewritePython ==
    /\ rewrite_input.language = "python"
    /\ ~rewrite_output.done
    /\ \E g \in { process_python_module(rewrite_input.module_str, rewrite_input.file_path,
                                        Root, EmptyGraph) } :
           rewrite_output' =
               [clean_import |-> python_clean_import(rewrite_input.module_str),
                dependencies |-> IF rewrite_input.file_path \in DOMAIN g
                                 THEN g[rewrite_input.file_path] ELSE << >>,
                done |-> TRUE]
    /\ UNCHANGED << diskVars, dependencyVars, resolveVars, rewrite_input, startupVars,
                    directoryVars,
                    filesVars >>

\* The body of the match loop of analyze_rust on one literal of a file.
RewriteRust ==
    /\ rewrite_input.language = "rust"
    /\ ~rewrite_output.done
    /\ rewrite_output' =
           [clean_import |-> rust_clean_import(rewrite_input.module_str),
            dependencies |-> rust_dependencies(rewrite_input.file_path, Root,
                                               << Match(0, rewrite_input.module_str) >>),
            done |-> TRUE]
    /\ UNCHANGED << diskVars, dependencyVars, resolveVars, rewrite_input, startupVars,
                    directoryVars,
                    filesVars >>

NextRewrite == RewritePython \/ RewriteRust

SpecRewrite == InitRewrite /\ [][NextRewrite]_vars

\* A literal of the given language has been rewritten.
Rewritten(language) == rewrite_input.language = language /\ rewrite_output.done

\* The number of dots a string begins with.
DotsAhead(str) ==
    CHOOSE n \in 0..Len(str) :
        /\ \A i \in 1..n : str[i] = "."
        /\ n = Len(str) \/ str[n + 1] # "."

\* C21: the Python rewrite of a literal with n >= 1 leading dots is "../"
\* n - 1 times, followed by the rest of the literal with every "." turned into
\* "/"; a literal without leading dots has every "." turned into "/".
C21_PythonRewrite ==
    Rewritten("python") =>
        LET str == rewrite_input.module_str
            out == rewrite_output.clean_import
            n == DotsAhead(str)
            climb == IF n >= 1 THEN 3 * (n - 1) ELSE 0
        IN  /\ Len(out) = climb + Len(str) - n
            /\ \A i \in 1..climb : out[i] = (IF i % 3 = 0 THEN "/" ELSE ".")
            /\ \A j \in 1..(Len(str) - n) :
                   out[climb + j] = (IF str[n + j] = "." THEN "/" ELSE str[n + j])

\* "..pkg.mod" has become "../pkg/mod".
C21_Witness ==
    /\ Rewritten("python")
    /\ rewrite_input.module_str = << ".", "." >> \o N_pkg \o << "." >> \o S_mod
    /\ rewrite_output.clean_import = S_dotdot_slash \o N_pkg \o << "/" >> \o S_mod

\* Every "::" of a string, taken from the left, turned into "/".
RECURSIVE ColonsToSlashes(_, _)
ColonsToSlashes(str, i) ==
    IF i > Len(str) THEN << >>
    ELSE IF i < Len(str) /\ str[i] = ":" /\ str[i + 1] = ":"
         THEN << "/" >> \o ColonsToSlashes(str, i + 2)
         ELSE << str[i] >> \o ColonsToSlashes(str, i + 1)

SelfPrefix == S_self \o S_colons
SuperPrefix == S_super \o S_colons

\* The string without its first n characters.
Drop(str, n) == SubSeq(str, n + 1, Len(str))

\* C22: the Rust rewrite strips a leading "self::", otherwise replaces a
\* single leading "super::" by "../", then turns every "::" into "/"; so
\* "self::t" and "t" resolve to the same target from the same file, and
\* "super::b" in /r/src/a/mod.rs resolves to /r/src/b.rs.
C22_RustRewrite ==
    Rewritten("rust") =>
        LET str == rewrite_input.module_str
            from == rewrite_input.file_path
            rest == IF is_prefix(SelfPrefix, str) THEN Drop(str, Len(SelfPrefix))
                    ELSE IF is_prefix(SuperPrefix, str)
                         THEN S_dotdot_slash \o Drop(str, Len(SuperPrefix))
                         ELSE str
        IN  /\ rewrite_output.clean_import = ColonsToSlashes(rest, 1)
            /\ ( /\ is_prefix(SelfPrefix, str)
                 /\ ~is_prefix(SelfPrefix, Drop(str, Len(SelfPrefix)))
                 /\ ~is_prefix(SuperPrefix, Drop(str, Len(SelfPrefix))) )
               => rewrite_output.dependencies
                      = rust_dependencies(from, Root,
                                          << Match(0, Drop(str, Len(SelfPrefix))) >>)
            /\ (str = SuperPrefix \o << "b" >> /\ from = F_src_a_mod_rs)
               => rewrite_output.dependencies = << F_src_b_rs >>

\* "self::a" in /r/src/b.rs has resolved to /r/src/a/mod.rs.
C22_Witness ==
    /\ Rewritten("rust")
    /\ rewrite_input.module_str = SelfPrefix \o N_a
    /\ rewrite_input.file_path = F_src_b_rs
    /\ rewrite_output.clean_import = N_a
    /\ rewrite_output.dependencies = << F_src_a_mod_rs >>


\* The (dots, name) pairs of a sequence of dots-only matches, in order.
RECURSIVE NamePairs(_)
NamePairs(matches) ==
    IF matches = << >> THEN << >>
    ELSE [ i \in 1..Len(matches[1].names) |->
             [dots |-> matches[1].text, name |-> matches[1].names[i]] ]
         \o NamePairs(Tail(matches))

\* What the literal of one pair resolves to from a Python file: "../" for
\* each dot after the first, then the name.
PairTarget(pair, from, root_path) ==
    resolve_relative_path(parent(from),
                          repeat(S_dotdot_slash, Len(pair.dots) - 1) \o pair.name,
                          root_path, python_possible_exts)

\* The targets of the pairs that resolve, in order.
RECURSIVE PairTargets(_, _, _)
PairTargets(pairs, from, root_path) ==
    IF pairs = << >> THEN << >>
    ELSE (IF PairTarget(pairs[1], from, root_path) # None
          THEN << PairTarget(pairs[1], from, root_path) >> ELSE << >>)
         \o PairTargets(Tail(pairs), from, root_path)

\* The files that hold dots-only imports and nothing else.
DotsOnlyImporters ==
    { f \in files_to_scan :
        /\ contents[f] # << >>
        /\ \A i \in 1..Len(contents[f]) : contents[f][i].pattern_index = 2 }

(***************************************************************************)
(* C23.  A Python dots-only import is processed once for each imported     *)
(* name, with the literal made of the dots and the name: each name that    *)
(* resolves gives its own edge from the importing file, in the order of    *)
(* the names.                                                              *)
(***************************************************************************)
C23_OneEdgePerName ==
    (Analyzed /\ unreadable = { }) =>
        \A f \in DotsOnlyImporters :
            LET targets == PairTargets(NamePairs(contents[f]), f, path)
            IN  IF targets = << >> THEN f \notin DOMAIN dependency_graph
                ELSE f \in DOMAIN dependency_graph /\ dependency_graph[f] = targets

\* "from . import m, x" and the like: one statement of /r/pkg/__init__.py
\* with two names in one match has given two edges.
C23_Witness ==
    /\ Analyzed
    /\ Len(contents[F_pkg_init]) = 1
    /\ contents[F_pkg_init][1].pattern_index = 2
    /\ Len(contents[F_pkg_init][1].names) = 2
    /\ F_pkg_init \in DOMAIN dependency_graph
    /\ Len(dependency_graph[F_pkg_init]) = 2
    /\ dependency_graph[F_pkg_init][1] # dependency_graph[F_pkg_init][2]


\* An entry that a pattern of /r/.gitignore names: the pattern has its base
\* name, and a pattern for directories names directories only.
NamedByPattern(p) ==
    \E g \in gitignore : file_name(p) = g.name /\ (g.dir_only => is_dir(p))

\* The entry, or a directory above it and below the root, is so named.
IgnoredOrBelowIgnored(root_path, p) == \E q \in UpTo(root_path, p) : NamedByPattern(q)

(***************************************************************************)
(* C24.  An entry the matcher ignores is not in the tree, and an ignored   *)
(* directory is not entered: neither it nor anything below it is in the    *)
(* tree or among the files collected from the tree.                        *)
(***************************************************************************)
C24_IgnoredEntriesAreAbsent ==
    (path = Root /\ pc \in { "tree_built", "collected" }) =>
        \A p \in Below(path) :
            IgnoredOrBelowIgnored(path, p) =>
                /\ p \notin tree_paths(tree)
                /\ pc = "collected" => p \notin files_to_scan

\* The files have been collected from a tree that has /r/a.js and lacks the
\* ignored directory /r/ign and its file /r/ign/s.js.
C24_Witness ==
    /\ pc = "collected"
    /\ P_ign_dir \in gitignore
    /\ F_a_js \in files_to_scan
    /\ F_ign_s_js \notin files_to_scan
    /\ Abs(<< N_r, N_ign >>) \notin tree_paths(tree)
    /\ F_ign_s_js \notin tree_paths(tree)


\* The languages whose analyser has returned when the request stands at pc.
AnalysersReturned ==
    CASE pc = "js_done" -> << "js" >>
      [] pc = "python_done" -> << "js", "python" >>
      [] pc = "rust_done" -> << "js", "python", "rust" >>
      [] OTHER -> Languages

(***************************************************************************)
(* C26.  When the grammar or the query of a language cannot be set up,     *)
(* that language gives no edge and the other languages are analysed all    *)
(* the same, in the order JS/TS, Python, Rust, C/C++: after each analyser  *)
(* the graph holds the edges of the languages taken so far whose setup     *)
(* succeeded, and the request is answered with success.                    *)
(***************************************************************************)
C26_FailedSetupSkipsOneLanguage ==
    (req_path # None /\ setup_failures # { }) =>
        /\ pc \in { "js_done", "python_done", "rust_done", "analyzed" } =>
              /\ dependency_graph =
                     analysis_in_some_order(
                         SelectSeq(AnalysersReturned, LAMBDA lang : lang \notin setup_failures),
                         files_to_scan, path, contents, unreadable, EmptyGraph)
              /\ \A k \in DOMAIN dependency_graph :
                     \A lang \in setup_failures : ~accepts(lang, k)
        /\ pc = "done" => response.success

\* The setup of one language failed; a file of that language holds an import
\* that would have resolved and is no key, and the request was answered with
\* the edge of a file of another language.
C26_Witness ==
    /\ pc = "done"
    /\ response.success
    /\ response.dependencyGraph # EmptyGraph
    /\ \E lang \in setup_failures :
          \E f \in files_to_scan :
             /\ accepts(lang, f)
             /\ \E c \in CandidatesOf(f, contents[f]) : candidate_ok(c, path)
             /\ f \notin DOMAIN response.dependencyGraph


(***************************************************************************)
(* C25.  While one key is expanded the dependency list of an __init__.py   *)
(* node is traversed at most once, even when several direct dependencies   *)
(* of the key lead to that node.                                           *)
(***************************************************************************)
C25_InitTraversedOncePerKey ==
    \A node \in DOMAIN traversals : traversals[node] <= 1

(***************************************************************************)
(* C29.  expand_init_dependencies leaves its input as it was, and the      *)
(* graph it returns has exactly the keys of the input.                     *)
(***************************************************************************)
C29_InputKeptAndKeysKept ==
    /\ (req_path = None /\ pc \in { "expand", "expanded" }) =>
          dependency_graph = (IF round = 1 THEN first_input ELSE first_expanded)
    /\ pc = "expanded" => DOMAIN expanded_graph = DOMAIN dependency_graph

\* The expander returned for an input in which an __init__.py that is no key
\* is a dependency: it is no key of the result.
C29_Witness ==
    /\ pc = "expanded"
    /\ round = 1
    /\ dependency_graph = first_input
    /\ \E d \in Values(dependency_graph) :
          is_init(d) /\ d \notin DOMAIN dependency_graph /\ d \notin DOMAIN expanded_graph

(***************************************************************************)
(* C30.  For every key the expanded sequence holds every direct            *)
(* dependency of the key, and every path of it is a dependency of some key *)
(* of the input.                                                           *)
(***************************************************************************)
C30_DirectKeptNothingInvented ==
    pc = "expanded" =>
        \A k \in DOMAIN dependency_graph :
            /\ k \in DOMAIN expanded_graph
            /\ Range(dependency_graph[k]) \subseteq Range(expanded_graph[k])
            /\ Range(expanded_graph[k]) \subseteq Values(dependency_graph)

\* The expander returned a key whose sequence holds its direct dependency
\* and a path that only an __init__.py names.
C30_Witness ==
    /\ pc = "expanded"
    /\ round = 1
    /\ \E k \in DOMAIN dependency_graph :
          /\ Range(expanded_graph[k]) \ Range(dependency_graph[k]) # { }
          /\ Range(dependency_graph[k]) # { }
          /\ Range(dependency_graph[k]) \subseteq Range(expanded_graph[k])


(***************************************************************************)
(* C27.  The files of a /api/files request are read concurrently, with a   *)
(* bounded fan-out: while one read is in flight and a path is yet to be    *)
(* taken the read of that path may start, so that several reads are in     *)
(* flight at once, and the reads in flight never exceed a fixed number.    *)
(***************************************************************************)
C27_SeveralReadsInFlight ==
    /\ Cardinality(files_in_flight) <= MaxPaths
    /\ ( /\ Cardinality(files_in_flight) = 1
         /\ files_index + 1 < Len(files_req) )
       => ENABLED FilesStartRead

\* The reads of a request are made one at a time: the only fixed number that
\* bounds the reads in flight is one.
C27_OneReadInFlight == Cardinality(files_in_flight) <= 1


(***************************************************************************)
(* The startup of the server: main reads PORT, CERT_PATH and KEY_PATH,     *)
(* binds a listener and runs the server.                                   *)
(***************************************************************************)

\* The files of the TLS material that exist.
TlsFiles == { "/tls/cert.pem", "/tls/key.pem" }

\* Path::new(p).exists()
tls_file_exists(p) == p \in TlsFiles

\* What the TLS files may hold: files that load, files that cannot be
\* opened, PEM that does not parse, a key file without a PKCS#8 key, and a
\* certificate the key does not fit.
KeyMaterials == { "ok", "unreadable", "malformed", "no_keys", "mismatch" }

PossibleEnv ==
    [CERT_PATH : { "unset", "/tls/cert.pem", "/tls/none.pem" },
     KEY_PATH : { "unset", "/tls/key.pem", "/tls/none.pem" },
     PORT : { "unset", "8080" },
     key_material : KeyMaterials,
     port_free : BOOLEAN]

InitStartup ==
    /\ InitPlainDisk
    /\ InitDependencyIdle
    /\ InitDirectory
    /\ InitFiles
    /\ InitResolver
    /\ server_env \in PossibleEnv
    /\ server = [pc |-> "start", listener |-> NoListener, error |-> ""]

\* env::var("PORT").unwrap_or_else(|_| "3000".to_string())
port_of(e) == IF e.PORT = "unset" THEN "3000" ELSE e.PORT

\* if let (Ok(cert_path), Ok(key_path)) = (env::var("CERT_PATH"), env::var("KEY_PATH"))
both_paths_set(e) == e.CERT_PATH # "unset" /\ e.KEY_PATH # "unset"

\* !Path::new(&cert_path).exists() || !Path::new(&key_path).exists()
a_file_is_missing(e) == ~tls_file_exists(e.CERT_PATH) \/ ~tls_file_exists(e.KEY_PATH)

\* bind and bind_rustls_0_23: a listener on 0.0.0.0 and the port, or the
\* error of a port that is taken.
bind(scheme, e, s) ==
    IF e.port_free
    THEN [s EXCEPT !.pc = "configured",
                   !.listener = [scheme |-> scheme, host |-> "0.0.0.0", port |-> port_of(e)]]
    ELSE [s EXCEPT !.pc = "failed", !.error = "Address already in use"]

\* Neither variable, or only one, is set: the plain HTTP listener is bound.
StartupBindHttp ==
    /\ server.pc = "start"
    /\ ~both_paths_set(server_env)
    /\ server' = bind("http", server_env, server)
    /\ UNCHANGED << diskVars, dependencyVars, resolveVars, rewriteVars, server_env,
                    directoryVars, filesVars >>

\* Both variables are set and a file is missing: main logs a warning and
\* binds nothing.
StartupWarnMissingFile ==
    /\ server.pc = "start"
    /\ both_paths_set(server_env)
    /\ a_file_is_missing(server_env)
    /\ server' = [server EXCEPT !.pc = "configured"]
    /\ UNCHANGED << diskVars, dependencyVars, resolveVars, rewriteVars, server_env,
                    directoryVars, filesVars >>

\* Both variables are set and both files exist: the certificate chain and the
\* key are loaded, and the TLS listener is bound.
StartupBindTls ==
    /\ server.pc = "start"
    /\ both_paths_set(server_env)
    /\ ~a_file_is_missing(server_env)
    /\ server' =
           CASE server_env.key_material = "unreadable" ->
                    [server EXCEPT !.pc = "failed", !.error = "Permission denied"]
             [] server_env.key_material = "malformed" ->
                    [server EXCEPT !.pc = "panicked"]
             [] server_env.key_material = "no_keys" ->
                    [server EXCEPT !.pc = "failed",
                                   !.error = "No private keys found in key file"]
             [] server_env.key_material = "mismatch" ->
                    [server EXCEPT !.pc = "failed", !.error = "invalid certificate"]
             [] OTHER -> bind("https", server_env, server)
    /\ UNCHANGED << diskVars, dependencyVars, resolveVars, rewriteVars, server_env,
                    directoryVars, filesVars >>

\* http_server.run().await: the server runs on the listeners bound; without
\* a listener it serves nothing, or does not start at all.
StartupRun ==
    /\ server.pc = "configured"
    /\ \/ server' = [server EXCEPT !.pc = "running"]
       \/ /\ server.listener = NoListener
          /\ server' = [server EXCEPT !.pc = "failed", !.error = "no listener"]
    /\ UNCHANGED << diskVars, dependencyVars, resolveVars, rewriteVars, server_env,
                    directoryVars, filesVars >>

NextStartup ==
    \/ StartupBindHttp
    \/ StartupWarnMissingFile
    \/ StartupBindTls
    \/ StartupRun

SpecStartup == InitStartup /\ [][NextStartup]_vars

(***************************************************************************)
(* C28.  Before the server runs, main has bound a listener whatever        *)
(* CERT_PATH and KEY_PATH are: TLS when both are set and both files exist, *)
(* plain HTTP on 0.0.0.0 and PORT otherwise, also when both are set and a  *)
(* file is missing.                                                        *)
(***************************************************************************)
C28_ListenerBoundBeforeRun ==
    server.pc \in { "configured", "running" } =>
        server.listener =
            [scheme |-> IF both_paths_set(server_env) /\ ~a_file_is_missing(server_env)
                        THEN "https" ELSE "http",
             host |-> "0.0.0.0",
             port |-> port_of(server_env)]

=============================================================================
